---- MODULE Spec2Model ----
(***************************************************************************)
(* Model of the path-aware value tree of cfn-guard                         *)
(* (cfn-guard/src/rules/path_value.rs): the conversion of a dynamic Value  *)
(* into a PathAwareValue, the query resolver `select`, and the comparison  *)
(* functions.                                                              *)
(*                                                                         *)
(* A Rust String is a tuple of one-character strings, so that pushing a    *)
(* separator, parsing digits and ordering strings are computed, not        *)
(* assumed.  A PathAwareValue is a record with the same fields for every   *)
(* variant; the fields a variant does not carry hold a fixed default.      *)
(***************************************************************************)
EXTENDS Integers, Sequences, FiniteSets, TLC

\* ------------------------------------------------------------------ bounds

\* longest query drawn by CallSelect (the scenario queries are drawn besides)
MaxQueryLen == 3

\* the longest text the loop of clauses is followed through turn by turn
MaxTurnText == 14

\* ------------------------------------------------------- characters, strings

\* code points of the characters the model's strings are made of
Code(c) ==
    CASE c = "-" -> 45
      [] c = "/" -> 47
      [] c = "0" -> 48
      [] c = "1" -> 49
      [] c = "2" -> 50
      [] c = "3" -> 51
      [] c = "4" -> 52
      [] c = "5" -> 53
      [] c = "6" -> 54
      [] c = "7" -> 55
      [] c = "8" -> 56
      [] c = "9" -> 57
      [] c = "+" -> 43
      [] OTHER ->
           CASE c = "a" -> 97  [] c = "b" -> 98  [] c = "c" -> 99
             [] c = "e" -> 101 [] c = "l" -> 108 [] c = "o" -> 111
             [] c = "p" -> 112 [] c = "r" -> 114 [] c = "s" -> 115
             [] c = "t" -> 116 [] c = "v" -> 118
             [] c = "B" -> 66  [] c = "E" -> 69  [] c = "M" -> 77
             [] c = "N" -> 78  [] c = "O" -> 79  [] c = "d" -> 100
             [] c = "h" -> 104 [] c = "k" -> 107 [] c = "u" -> 117

Digits == <<"0", "1", "2", "3", "4", "5", "6", "7", "8", "9">>

IsDigit(c) == \E i \in 1..10 : Digits[i] = c

DigitVal(c) == Code(c) - 48

\* i32::MIN, written so that no literal leaves the 32-bit range
I32Min == -2147483647 - 1

RECURSIVE ParseDigits(_, _, _)
\* the digit loop of i32::from_str: checked multiply and add (subtract for a
\* negative number); ok is FALSE on a non-digit or on overflow
ParseDigits(s, acc, neg) ==
    IF s = <<>> THEN [ok |-> TRUE, val |-> acc]
    ELSE IF ~IsDigit(Head(s)) THEN [ok |-> FALSE, val |-> 0]
    ELSE LET d == DigitVal(Head(s)) IN
         IF neg
         THEN IF acc < -214748364 \/ (acc = -214748364 /\ d > 8)
              THEN [ok |-> FALSE, val |-> 0]
              ELSE ParseDigits(Tail(s), acc * 10 - d, neg)
         ELSE IF acc > 214748364 \/ (acc = 214748364 /\ d > 7)
              THEN [ok |-> FALSE, val |-> 0]
              ELSE ParseDigits(Tail(s), acc * 10 + d, neg)

\* key.parse::<i32>(): an optional sign, then at least one digit
ParseI32(s) ==
    IF s = <<>> THEN [ok |-> FALSE, val |-> 0]
    ELSE IF Head(s) = "-"
         THEN IF Tail(s) = <<>> THEN [ok |-> FALSE, val |-> 0]
              ELSE ParseDigits(Tail(s), 0, TRUE)
    ELSE IF Head(s) = "+"
         THEN IF Tail(s) = <<>> THEN [ok |-> FALSE, val |-> 0]
              ELSE ParseDigits(Tail(s), 0, FALSE)
    ELSE ParseDigits(s, 0, FALSE)

RECURSIVE Decimal(_)
\* usize::to_string
Decimal(n) ==
    IF n < 10 THEN <<Digits[n + 1]>>
    ELSE Decimal(n \div 10) \o <<Digits[(n % 10) + 1]>>

RECURSIVE StrCmp(_, _)
\* Ord for String and char: byte-wise lexicographic order
StrCmp(s, o) ==
    IF s = <<>> /\ o = <<>> THEN "Equal"
    ELSE IF s = <<>> THEN "Less"
    ELSE IF o = <<>> THEN "Greater"
    ELSE IF Code(Head(s)) < Code(Head(o)) THEN "Less"
    ELSE IF Code(Head(s)) > Code(Head(o)) THEN "Greater"
    ELSE StrCmp(Tail(s), Tail(o))

IntCmp(i, o) == IF i < o THEN "Less" ELSE IF i > o THEN "Greater" ELSE "Equal"

\* ---------------------------------------------------------------------- Path

\* Path::root()
root == <<>>

\* Path::extend_str: push '/' and the part
extend_str(self, part) == self \o <<"/">> \o part

\* Path::extend_string
extend_string(self, part) == extend_str(self, part)

\* a one-based numbering of list elements, which Path::extend_usize is not
extend_usize_one_based(self, part) == extend_string(self, Decimal(part + 1))

\* Path::extend_usize
extend_usize(self, part) == extend_string(self, Decimal(part))

\* --------------------------------------------------------------------- Value

NoRange == [lower |-> 0, upper |-> 0, inclusive |-> 0]

\* the dynamic Value: a map is its keys and its values, both in insertion order
Val(tag, s, n, b, nan, range, keys, items) ==
    [tag |-> tag, s |-> s, n |-> n, b |-> b, nan |-> nan, range |-> range,
     keys |-> keys, items |-> items]

VNull == Val("Null", <<>>, 0, FALSE, FALSE, NoRange, <<>>, <<>>)
VString(s) == Val("String", s, 0, FALSE, FALSE, NoRange, <<>>, <<>>)
VRegex(s) == Val("Regex", s, 0, FALSE, FALSE, NoRange, <<>>, <<>>)
VBool(b) == Val("Bool", <<>>, 0, b, FALSE, NoRange, <<>>, <<>>)
VInt(n) == Val("Int", <<>>, n, FALSE, FALSE, NoRange, <<>>, <<>>)
VFloat(n) == Val("Float", <<>>, n, FALSE, FALSE, NoRange, <<>>, <<>>)
VNaN == Val("Float", <<>>, 0, FALSE, TRUE, NoRange, <<>>, <<>>)
VChar(c) == Val("Char", <<c>>, 0, FALSE, FALSE, NoRange, <<>>, <<>>)
VList(items) == Val("List", <<>>, 0, FALSE, FALSE, NoRange, <<>>, items)
VMap(keys, items) == Val("Map", <<>>, 0, FALSE, FALSE, NoRange, keys, items)
VRange(tag, lo, hi, incl) ==
    Val(tag, <<>>, 0, FALSE, FALSE,
        [lower |-> lo, upper |-> hi, inclusive |-> incl], <<>>, <<>>)

\* ------------------------------------------------------------ PathAwareValue

\* enum PathAwareValue: every variant carries its Path; a Map carries
\* MapValue.keys (the keys as String nodes) and MapValue.values (mkeys, items)
PathAwareValue(tag, path, s, n, b, nan, range, keys, mkeys, items) ==
    [tag |-> tag, path |-> path, s |-> s, n |-> n, b |-> b, nan |-> nan,
     range |-> range, keys |-> keys, mkeys |-> mkeys, items |-> items]

RECURSIVE try_from(_, _)
\* TryFrom<(&Value, Path)> for PathAwareValue
try_from(value, path) ==
    CASE value.tag = "List" ->
           PathAwareValue("List", path, <<>>, 0, FALSE, FALSE, NoRange, <<>>, <<>>,
               [idx \in 1..Len(value.items) |->
                   try_from(value.items[idx], extend_usize(path, idx - 1))])
      [] value.tag = "Map" ->
           PathAwareValue("Map", path, <<>>, 0, FALSE, FALSE, NoRange,
               [k \in 1..Len(value.keys) |->
                   PathAwareValue("String", extend_string(path, value.keys[k]),
                       value.keys[k], 0, FALSE, FALSE, NoRange, <<>>, <<>>, <<>>)],
               value.keys,
               [k \in 1..Len(value.keys) |->
                   try_from(value.items[k], extend_string(path, value.keys[k]))])
      [] OTHER ->
           PathAwareValue(value.tag, path, value.s, value.n, value.b, value.nan,
               value.range, <<>>, <<>>, <<>>)

is_list(self) == self.tag = "List"

is_map(self) == self.tag = "Map"

\* map.values.get(key): the position of key among the map's keys, 0 if absent
KeyPos(self, key) ==
    IF \E k \in 1..Len(self.mkeys) : self.mkeys[k] = key
    THEN CHOOSE k \in 1..Len(self.mkeys) : self.mkeys[k] = key
    ELSE 0

\* ---------------------------------------------------------------- QueryPart

\* the conjunctions of a Filter part, by the status their evaluation gives an
\* element of each kind (the evaluator is outside this module's sources)
Conj(onMap, onList, onString, onOther) ==
    [onMap |-> onMap, onList |-> onList, onString |-> onString, onOther |-> onOther]

NoConj == Conj("SKIP", "SKIP", "SKIP", "SKIP")

QueryPart(part, key, idx, conj) ==
    [part |-> part, key |-> key, idx |-> idx, conj |-> conj]

Key(k) == QueryPart("Key", k, 0, NoConj)
Index(i) == QueryPart("Index", <<>>, i, NoConj)
AllIndices == QueryPart("AllIndices", <<>>, 0, NoConj)
AllValues == QueryPart("AllValues", <<>>, 0, NoConj)
MapKeys == QueryPart("MapKeys", <<>>, 0, NoConj)
Filter(c) == QueryPart("Filter", <<>>, 0, c)

\* conjunctions.evaluate(each, resolver): PASS, FAIL, SKIP, or the kind of the
\* error it returns
evaluate(conj, each) ==
    CASE each.tag = "Map" -> conj.onMap
      [] each.tag = "List" -> conj.onList
      [] each.tag = "String" -> conj.onString
      [] OTHER -> conj.onOther

\* ------------------------------------------------------------------- select

\* Result<Vec<&PathAwareValue>, Error>: kind is Ok or the ErrorKind; an error
\* carries the value (or list) its message prints.  Panic is the abort of an
\* arithmetic overflow under overflow checks.
Ok(vals) == [kind |-> "Ok", vals |-> vals, subject |-> <<>>]

Err(kind, subject) == [kind |-> kind, vals |-> <<>>, subject |-> subject]

\* -index on i32: i32::MIN has no negation; with overflow checks it aborts
\* (NegOverflows), without them it wraps to i32::MIN
NegOverflows(index) == index = I32Min

WrappingNeg(index) == IF index = I32Min THEN I32Min ELSE -index

\* (x as usize) < len for an i32 x: a negative x sign-extends to a value above
\* every Vec length
UsizeLess(x, len) == x >= 0 /\ x < len

\* PathAwareValue::retrieve_index
retrieve_index(index, list, query, checks) ==
    IF index < 0 /\ NegOverflows(index) /\ checks
    THEN Err("Panic", <<>>)
    ELSE LET check == IF index >= 0 THEN index ELSE WrappingNeg(index) IN
         IF UsizeLess(check, Len(list))
         THEN Ok(<<list[check + 1]>>)
         ELSE Err("RetrievalError", list)

RECURSIVE select(_, _, _, _)
RECURSIVE accumulate_loop(_, _, _, _, _, _)
RECURSIVE all_values_loop(_, _, _, _, _, _)
RECURSIVE filter_loop(_, _, _, _, _, _)

\* all_values_loop with the RetrievalError arm swallowing in both modes
all_values_loop_swallowing(all, query, values, checks, i, resolved) ==
    IF i > Len(values) THEN Ok(resolved)
    ELSE LET result == select(values[i], all, Tail(query), checks) IN
         CASE result.kind = "Ok" ->
                all_values_loop(all, query, values, checks, i + 1,
                                resolved \o result.vals)
           [] result.kind = "RetrievalError" ->
                all_values_loop(all, query, values, checks, i + 1, resolved)
           [] OTHER -> result

\* all_values_loop putting each value's results before those already resolved
all_values_loop_reversed(all, query, values, checks, i, resolved) ==
    IF i > Len(values) THEN Ok(resolved)
    ELSE LET result == select(values[i], all, Tail(query), checks) IN
         CASE result.kind = "Ok" ->
                all_values_loop(all, query, values, checks, i + 1,
                                result.vals \o resolved)
           [] result.kind = "RetrievalError" ->
                IF all THEN result
                ELSE all_values_loop(all, query, values, checks, i + 1, resolved)
           [] OTHER -> result

\* the for loop of PathAwareValue::accumulate, from element i on
accumulate_loop(all, query, elements, checks, i, accumulated) ==
    IF i > Len(elements) THEN Ok(accumulated)
    ELSE IF query # <<>>
    THEN LET result == select(elements[i], all, Tail(query), checks) IN
         CASE result.kind = "Ok" ->
                accumulate_loop(all, query, elements, checks, i + 1,
                                accumulated \o result.vals)
           [] result.kind = "RetrievalError" ->
                IF all THEN result
                ELSE accumulate_loop(all, query, elements, checks, i + 1, accumulated)
           [] OTHER -> result
    ELSE accumulate_loop(all, query, elements, checks, i + 1,
                         Append(accumulated, elements[i]))

\* PathAwareValue::accumulate
accumulate(all, query, elements, checks) ==
    accumulate_loop(all, query, elements, checks, 1, <<>>)

\* the for loop of the AllValues part over a map's values, from value i on
all_values_loop(all, query, values, checks, i, resolved) ==
    IF i > Len(values) THEN Ok(resolved)
    ELSE LET result == select(values[i], all, Tail(query), checks) IN
         CASE result.kind = "Ok" ->
                all_values_loop(all, query, values, checks, i + 1,
                                resolved \o result.vals)
           [] result.kind = "RetrievalError" ->
                IF all THEN result
                ELSE all_values_loop(all, query, values, checks, i + 1, resolved)
           [] OTHER -> result

\* the for loop of the Filter part over a list, from element i on
filter_loop(all, query, vec, checks, i, selected) ==
    IF i > Len(vec) THEN Ok(selected)
    ELSE LET status == evaluate(Head(query).conj, vec[i]) IN
         CASE status = "PASS" ->
                LET index == IF Len(query) > 1
                             THEN IF query[2].part = "AllIndices" THEN 2 ELSE 1
                             ELSE 1
                    result == select(vec[i], all, SubSeq(query, index + 1, Len(query)),
                                     checks)
                IN IF result.kind = "Ok"
                   THEN filter_loop(all, query, vec, checks, i + 1,
                                    selected \o result.vals)
                   ELSE result
           [] status \in {"FAIL", "SKIP"} ->
                filter_loop(all, query, vec, checks, i + 1, selected)
           [] OTHER -> Err(status, <<vec[i]>>)

\* QueryResolver::select for PathAwareValue
select(self, all, query, checks) ==
    IF query = <<>> THEN Ok(<<self>>)
    ELSE
    CASE query[1].part = "Key" ->
           LET parsed == ParseI32(query[1].key) IN
           IF parsed.ok
           THEN IF self.tag = "List"
                THEN LET found == retrieve_index(parsed.val, self.items, query, checks) IN
                     IF found.kind = "Ok"
                     THEN select(found.vals[1], all, Tail(query), checks)
                     ELSE found
                ELSE Err("IncompatibleError", <<self>>)
           ELSE IF self.tag = "Map"
                THEN IF KeyPos(self, query[1].key) # 0
                     THEN select(self.items[KeyPos(self, query[1].key)], all,
                                 Tail(query), checks)
                     ELSE Err("RetrievalError", <<self>>)
                ELSE Err("IncompatibleError", <<self>>)
      [] query[1].part = "MapKeys" ->
           IF self.tag = "Map"
           THEN accumulate(all, Tail(query), self.keys, checks)
           ELSE Err("IncompatibleError", <<self>>)
      [] query[1].part = "Index" ->
           IF self.tag = "List"
           THEN LET found == retrieve_index(query[1].idx, self.items, query, checks) IN
                IF found.kind = "Ok"
                THEN select(found.vals[1], all, Tail(query), checks)
                ELSE found
           ELSE Err("IncompatibleError", <<self>>)
      [] query[1].part = "AllIndices" ->
           IF self.tag = "List"
           THEN accumulate(all, Tail(query), self.items, checks)
           ELSE Err("IncompatibleError", <<self>>)
      [] query[1].part = "AllValues" ->
           CASE self.tag = "List" -> accumulate(all, Tail(query), self.items, checks)
             [] self.tag = "Map" -> all_values_loop(all, query, self.items, checks, 1, <<>>)
             [] OTHER -> Err("IncompatibleError", <<self>>)
      [] query[1].part = "Filter" ->
           CASE self.tag = "List" -> filter_loop(all, query, self.items, checks, 1, <<>>)
             [] self.tag = "Map" ->
                  LET status == evaluate(query[1].conj, self) IN
                  CASE status = "PASS" -> select(self, all, Tail(query), checks)
                    [] status \in {"FAIL", "SKIP"} -> Ok(<<>>)
                    [] OTHER -> Err(status, <<self>>)
             [] OTHER -> Err("IncompatibleError", <<self>>)

\* --------------------------------------------------------------- comparison

\* Result<Ordering, Error>: ok with the Ordering, or NotComparable
Ordered(ord) == [ok |-> TRUE, ord |-> ord]

NotComparable == [ok |-> FALSE, ord |-> "NotComparable"]

\* f64::partial_cmp: None when either side is NaN
partial_cmp(f, s) ==
    IF f.nan \/ s.nan THEN NotComparable ELSE Ordered(IntCmp(f.n, s.n))

\* fn compare_values
compare_values(first, other) ==
    CASE first.tag = "Null" /\ other.tag = "Null" -> Ordered("Equal")
      [] first.tag = "Int" /\ other.tag = "Int" -> Ordered(IntCmp(first.n, other.n))
      [] first.tag = "String" /\ other.tag = "String" -> Ordered(StrCmp(first.s, other.s))
      [] first.tag = "Float" /\ other.tag = "Float" -> partial_cmp(first, other)
      [] first.tag = "Char" /\ other.tag = "Char" -> Ordered(StrCmp(first.s, other.s))
      [] first.tag = "Bool" /\ other.tag = "Bool" -> Ordered("Equal")
      [] first.tag = "Regex" /\ other.tag = "Regex" -> Ordered("Equal")
      [] OTHER -> NotComparable

RECURSIVE eq(_, _)
\* PartialEq for PathAwareValue; for two maps the derived PartialEq of
\* MapValue: the keys vectors element by element, and the IndexMaps entry by
\* entry (same length, every key of one found in the other with an equal
\* value, whatever the order)
eq(self, other) ==
    CASE self.tag = "Map" /\ other.tag = "Map" ->
           /\ Len(self.keys) = Len(other.keys)
           /\ \A k \in 1..Len(self.keys) : eq(self.keys[k], other.keys[k])
           /\ Len(self.mkeys) = Len(other.mkeys)
           /\ \A k \in 1..Len(self.mkeys) :
                 /\ KeyPos(other, self.mkeys[k]) # 0
                 /\ eq(self.items[k], other.items[KeyPos(other, self.mkeys[k])])
      [] self.tag = "List" /\ other.tag = "List" ->
           /\ Len(self.items) = Len(other.items)
           /\ \A i \in 1..Len(self.items) : eq(self.items[i], other.items[i])
      [] OTHER ->
           LET ordering == compare_values(self, other) IN
           ordering.ok /\ ordering.ord = "Equal"

\* Result<bool, Error> of the ordering comparisons
compare_lt(first, other) ==
    LET o == compare_values(first, other) IN
    IF o.ok THEN [ok |-> TRUE, val |-> o.ord = "Less"] ELSE [ok |-> FALSE, val |-> FALSE]

compare_le(first, other) ==
    LET o == compare_values(first, other) IN
    IF o.ok THEN [ok |-> TRUE, val |-> o.ord \in {"Equal", "Less"}]
    ELSE [ok |-> FALSE, val |-> FALSE]

compare_gt(first, other) ==
    LET o == compare_values(first, other) IN
    IF o.ok THEN [ok |-> TRUE, val |-> o.ord = "Greater"] ELSE [ok |-> FALSE, val |-> FALSE]

compare_ge(first, other) ==
    LET o == compare_values(first, other) IN
    IF o.ok THEN [ok |-> TRUE, val |-> o.ord \in {"Greater", "Equal"}]
    ELSE [ok |-> FALSE, val |-> FALSE]

\* ------------------------------------------------------------------- inputs

sa == <<"a">>
sb == <<"b">>
sc == <<"c">>
s0 == <<"0">>
servers == <<"s", "e", "r", "v", "e", "r", "s">>
protocols == <<"p", "r", "o", "t", "o", "c", "o", "l", "s">>
MinKey == <<"-", "2", "1", "4", "7", "4", "8", "3", "6", "4", "8">>

\* {"servers": [{"protocols": ["a", "b"]}, {"protocols": ["c"]}]}
DocServers ==
    VMap(<<servers>>,
         <<VList(<<VMap(<<protocols>>, <<VList(<<VString(sa), VString(sb)>>)>>),
                   VMap(<<protocols>>, <<VList(<<VString(sc)>>)>>)>>)>>)

\* {"0": "a", "a": [1]}
DocDigitKeys == VMap(<<s0, sa>>, <<VString(sa), VList(<<VInt(1)>>)>>)

\* [{"a": 1}, "b", {"b": 2}, []]
DocMixed ==
    VList(<<VMap(<<sa>>, <<VInt(1)>>), VString(sb), VMap(<<sb>>, <<VInt(2)>>),
            VList(<<>>)>>)

\* [[1, 2], [], [{"a": 3}]]
DocLists ==
    VList(<<VList(<<VInt(1), VInt(2)>>), VList(<<>>),
            VList(<<VMap(<<sa>>, <<VInt(3)>>)>>)>>)

\* {"a": {"a": 1, "b": [1]}, "b": {"b": 2}, "c": {"a": 3}}
DocMaps ==
    VMap(<<sa, sb, sc>>,
         <<VMap(<<sa, sb>>, <<VInt(1), VList(<<VInt(1)>>)>>),
           VMap(<<sb>>, <<VInt(2)>>),
           VMap(<<sa>>, <<VInt(3)>>)>>)

\* {"b": {"b": 2}, "a": {"a": 1}, "c": 7}
DocNested ==
    VMap(<<sb, sa, sc>>,
         <<VMap(<<sb>>, <<VInt(2)>>), VMap(<<sa>>, <<VInt(1)>>), VInt(7)>>)

Documents ==
    {DocServers, DocDigitKeys, DocMixed, DocLists, DocMaps, DocNested,
     VList(<<>>), VMap(<<>>, <<>>), VInt(5)}

PassMaps == Conj("PASS", "FAIL", "SKIP", "FAIL")
PassListsAndStrings == Conj("FAIL", "PASS", "PASS", "SKIP")
FailingConj == Conj("RetrievalError", "PASS", "IncompatibleError", "PASS")

Parts ==
    {Key(sa), Key(sb), Key(s0), MapKeys, Index(0), Index(-1), Index(I32Min),
     AllIndices, AllValues, Filter(PassMaps), Filter(PassListsAndStrings),
     Filter(FailingConj)}

\* servers[*].protocols[*]
ServersQuery == <<Key(servers), AllIndices, Key(protocols), AllIndices>>

Queries ==
    UNION {[1..n -> Parts] : n \in 0..MaxQueryLen}
      \cup {ServersQuery, <<Key(MinKey)>>, <<Key(servers), Key(MinKey)>>}

\* operands of the comparisons
Operands ==
    {VNull, VString(sa), VString(sb), VString(<<"a", "b">>), VRegex(sa), VRegex(sb),
     VBool(TRUE), VBool(FALSE), VInt(1), VInt(2), VFloat(1), VFloat(2), VNaN,
     VChar("a"), VChar("b"), VList(<<>>), VList(<<VInt(1)>>), VList(<<VInt(2)>>),
     VList(<<VNaN>>), VMap(<<sa>>, <<VInt(1)>>), VMap(<<sa>>, <<VInt(2)>>),
     VMap(<<sa, sb>>, <<VInt(1), VInt(2)>>), VMap(<<sb, sa>>, <<VInt(2), VInt(1)>>),
     VRange("RangeInt", 1, 2, 0), VRange("RangeInt", 1, 3, 0),
     VRange("RangeFloat", 1, 2, 0), VRange("RangeChar", 97, 98, 0)}

\* -------------------------------------------------------------------- state

VARIABLES
    overflow_checks,  \* whether the build checks arithmetic overflow (debug) or wraps
    op,               \* the call made: "none" before it
    self,             \* select: the value queried; comparisons: the first operand
    other,            \* comparisons: the second operand
    all,              \* select: the strictness flag
    query,            \* select, resolve_query: the query
    result,           \* what the call returned
    value,            \* resolve_query: the document value the query starts at
    input,            \* the parsers: the text handed to the parser
    files,            \* validate: the rules files, in the order they are read
    data_files,       \* validate: the data files, in the order they are read
    rules,            \* the evaluator: the rules evaluated
    scope             \* the evaluator: the status of each named rule

vars == <<overflow_checks, op, self, other, all, query, result, value, input,
          files, data_files, rules, scope>>

NoValue == try_from(VNull, root)

Init ==
    /\ overflow_checks \in BOOLEAN
    /\ op = "none"
    /\ self = NoValue
    /\ other = NoValue
    /\ all = FALSE
    /\ query = <<>>
    /\ result = Ok(<<>>)
    /\ value = VNull
    /\ input = <<>>
    /\ files = <<>>
    /\ data_files = <<>>
    /\ rules = <<>>
    /\ scope = <<>>

\* value.select(all, query, resolver) on a document built at the root path
CallSelect ==
    /\ op = "none"
    /\ \E d \in Documents, a \in BOOLEAN, q \in Queries :
          /\ self' = try_from(d, root)
          /\ all' = a
          /\ query' = q
          /\ result' = select(try_from(d, root), a, q, overflow_checks)
    /\ op' = "select"
    /\ UNCHANGED <<overflow_checks, other, value, input, files, data_files, rules, scope>>

\* a comparison of two values that sit at different paths
Compare(fn) ==
    /\ op = "none"
    /\ \E f \in Operands, o \in Operands :
          /\ self' = try_from(f, <<"/", "a">>)
          /\ other' = try_from(o, root)
          /\ result' =
               CASE fn = "eq" -> [ok |-> TRUE,
                                  val |-> eq(try_from(f, <<"/", "a">>), try_from(o, root))]
                 [] fn = "compare_lt" ->
                      compare_lt(try_from(f, <<"/", "a">>), try_from(o, root))
                 [] fn = "compare_le" ->
                      compare_le(try_from(f, <<"/", "a">>), try_from(o, root))
                 [] fn = "compare_gt" ->
                      compare_gt(try_from(f, <<"/", "a">>), try_from(o, root))
                 [] fn = "compare_ge" ->
                      compare_ge(try_from(f, <<"/", "a">>), try_from(o, root))
    /\ op' = fn
    /\ UNCHANGED <<overflow_checks, all, query, value, input, files, data_files, rules, scope>>

CallEq == Compare("eq")
CallCompareLt == Compare("compare_lt")
CallCompareLe == Compare("compare_le")
CallCompareGt == Compare("compare_gt")
CallCompareGe == Compare("compare_ge")

\* a value compared with itself
CallEqSelf ==
    /\ op = "none"
    /\ \E v \in Operands, p \in {root, <<"/", "a">>} :
          /\ self' = try_from(v, p)
          /\ other' = try_from(v, p)
          /\ result' = [ok |-> TRUE, val |-> eq(try_from(v, p), try_from(v, p))]
    /\ op' = "eq_self"
    /\ UNCHANGED <<overflow_checks, all, query, value, input, files, data_files, rules, scope>>

Next ==
    \/ CallSelect
    \/ CallEq
    \/ CallCompareLt
    \/ CallCompareLe
    \/ CallCompareGt
    \/ CallCompareGe
    \/ CallEqSelf

Spec == Init /\ [][Next]_vars

\* ------------------------------------------------------------------- claims

Selected == op = "select"

\* the remaining query after the first part
Rest == Tail(query)

RECURSIVE ConcatVals(_)
\* the in-order concatenation of the values of a sequence of Ok results
ConcatVals(results) ==
    IF results = <<>> THEN <<>>
    ELSE Head(results).vals \o ConcatVals(Tail(results))

AllOk(results) == \A i \in 1..Len(results) : results[i].kind = "Ok"

\* select(e, R) for every element e of a sequence, in order
SelectEach(elements, a, R) ==
    [i \in 1..Len(elements) |-> select(elements[i], a, R, overflow_checks)]

PathsOf(vals) == [i \in 1..Len(vals) |-> vals[i].path]

\* C1: a strict select (all = TRUE) that returns Ok returns at least one value.
C1_StrictNeverEmpty ==
    (Selected /\ all /\ result.kind = "Ok") => result.vals # <<>>

ServersPath(i, j) ==
    extend_usize(extend_str(extend_usize(extend_str(root, servers), i), protocols), j)

\* C2: on a list, [AllIndices] ++ R returns the in-order concatenation of
\* select(e, R) over the elements (no part of R skipped), and
\* servers[*].protocols[*] returns the three protocol nodes in order.
C2_AllIndicesConcat ==
    /\ (Selected /\ query # <<>> /\ query[1].part = "AllIndices" /\ self.tag = "List"
          /\ AllOk(SelectEach(self.items, all, Rest)))
         => result = Ok(ConcatVals(SelectEach(self.items, all, Rest)))
    /\ (Selected /\ query = ServersQuery /\ self = try_from(DocServers, root))
         => /\ result.kind = "Ok"
            /\ PathsOf(result.vals) =
                 <<ServersPath(0, 0), ServersPath(0, 1), ServersPath(1, 0)>>

\* C3: on a map, [Key(k)] ++ R is select(M[k], R) for every key k the map
\* contains (digit strings included); a key the map lacks is a RetrievalError
\* and a Key on a scalar is an IncompatibleError.
C3_KeyOnMap ==
    (Selected /\ query # <<>> /\ query[1].part = "Key") =>
        CASE self.tag = "Map" ->
               IF KeyPos(self, query[1].key) # 0
               THEN result = select(self.items[KeyPos(self, query[1].key)], all, Rest,
                                    overflow_checks)
               ELSE result.kind = "RetrievalError"
          [] self.tag = "List" -> TRUE
          [] OTHER -> result.kind = "IncompatibleError"

\* R with one leading AllIndices removed
DropAllIndices(R) ==
    IF R # <<>> /\ R[1].part = "AllIndices" THEN Tail(R) ELSE R

\* the elements a Filter part ranges over: a list's items, a map as a singleton
FilterElements(v) == IF v.tag = "List" THEN v.items ELSE <<v>>

\* the subsequence of the elements for which the conjunctions are PASS
Passing(elements, conj) ==
    SelectSeq(elements, LAMBDA e : evaluate(conj, e) = "PASS")

\* C4: on a list or a map (as a singleton), [Filter(C)] ++ R returns the
\* concatenation of select(e, R') over the elements where C is PASS, R' being R
\* without one leading AllIndices; FAIL and SKIP elements contribute nothing
\* and raise no error; any other value is an IncompatibleError.
C4_FilterSelects ==
    (Selected /\ query # <<>> /\ query[1].part = "Filter") =>
        IF self.tag \in {"List", "Map"}
        THEN LET elements == FilterElements(self)
                 results == SelectEach(Passing(elements, query[1].conj), all,
                                       DropAllIndices(Rest))
             IN ((\A i \in 1..Len(elements) :
                     evaluate(query[1].conj, elements[i]) \in {"PASS", "FAIL", "SKIP"})
                  /\ AllOk(results))
                => result = Ok(ConcatVals(results))
        ELSE result.kind = "IncompatibleError"

\* the call of the state made in strict and in non-strict mode
Strict == select(self, TRUE, query, overflow_checks)
NonStrict == select(self, FALSE, query, overflow_checks)

\* the positions of the per-element results at which a traversal in mode a stops
Stops(results, a) ==
    {i \in 1..Len(results) :
        /\ results[i].kind # "Ok"
        /\ (a \/ results[i].kind # "RetrievalError")}

\* what a traversal in mode a makes of the per-element results: the first
\* error it does not swallow, else the concatenation of the Ok results
Traversal(results, a) ==
    IF Stops(results, a) = {}
    THEN Ok(ConcatVals(SelectSeq(results, LAMBDA r : r.kind = "Ok")))
    ELSE results[CHOOSE i \in Stops(results, a) : \A j \in Stops(results, a) : i <= j]

UnderWildcard ==
    /\ Selected
    /\ query # <<>>
    /\ \/ query[1].part = "AllValues" /\ self.tag \in {"List", "Map"}
       \/ query[1].part = "AllIndices" /\ self.tag = "List"

C6_AllValues ==
    (Selected /\ query # <<>> /\ query[1].part = "AllValues") =>
        CASE self.tag = "List" ->
               result = select(self, all, <<AllIndices>> \o Rest, overflow_checks)
          [] self.tag = "Map" ->
               AllOk(SelectEach(self.items, all, Rest))
                 => result = Ok(ConcatVals(SelectEach(self.items, all, Rest)))
          [] OTHER -> result.kind = "IncompatibleError"

\* AllValues over a map of several values, each contributing to the result
C6_Witness ==
    /\ Selected /\ query # <<>> /\ query[1].part = "AllValues" /\ Rest # <<>>
    /\ self.tag = "Map" /\ Len(self.items) > 1
    /\ AllOk(SelectEach(self.items, all, Rest))
    /\ \A i \in 1..Len(self.items) :
          select(self.items[i], all, Rest, overflow_checks).vals # <<>>
    /\ result.kind = "Ok"

\* the last token of a path is the string s
EndsWith(path, s) ==
    /\ Len(path) > Len(s)
    /\ SubSeq(path, Len(path) - Len(s), Len(path)) = <<"/">> \o s

\* C7: [MapKeys] on a map returns one String per key, in insertion order, each
\* equal to its key; every successful query ending in MapKeys returns only
\* Strings that are map keys; MapKeys on a non-map is an IncompatibleError.
C7_MapKeys ==
    /\ (Selected /\ query = <<MapKeys>>) =>
          IF self.tag = "Map"
          THEN /\ result.kind = "Ok"
               /\ Len(result.vals) = Len(self.mkeys)
               /\ \A i \in 1..Len(self.mkeys) :
                     /\ result.vals[i].tag = "String"
                     /\ result.vals[i].s = self.mkeys[i]
          ELSE result.kind = "IncompatibleError"
    /\ (Selected /\ query # <<>> /\ query[Len(query)].part = "MapKeys"
          /\ result.kind = "Ok") =>
          \A i \in 1..Len(result.vals) :
              /\ result.vals[i].tag = "String"
              /\ EndsWith(result.vals[i].path, result.vals[i].s)

\* the i32 index a first query part asks for on a list
AsksIndex ==
    /\ Selected /\ query # <<>> /\ self.tag = "List"
    /\ \/ query[1].part = "Index"
       \/ query[1].part = "Key" /\ ParseI32(query[1].key).ok

AskedIndex ==
    IF query[1].part = "Index" THEN query[1].idx ELSE ParseI32(query[1].key).val

\* C8: for every i32 index i (i32::MIN included) and list of length n, Index(i)
\* reaches element |i| when |i| < n and is a RetrievalError otherwise; |i| is
\* computed without overflow or abort.  (|i32::MIN| = 2^31 is above every n.)
C8_IndexAbs ==
    AsksIndex =>
        LET i == AskedIndex IN
        IF i # I32Min /\ (IF i >= 0 THEN i ELSE -i) < Len(self.items)
        THEN result = select(self.items[(IF i >= 0 THEN i ELSE -i) + 1], all, Rest,
                             overflow_checks)
        ELSE result.kind = "RetrievalError"

RECURSIVE StructEq(_, _)
\* equality of variant and payload, paths ignored; a NaN equals nothing
StructEq(a, b) ==
    /\ a.tag = b.tag
    /\ CASE a.tag = "Null" -> TRUE
         [] a.tag \in {"String", "Regex", "Char"} -> a.s = b.s
         [] a.tag = "Bool" -> a.b = b.b
         [] a.tag = "Int" -> a.n = b.n
         [] a.tag = "Float" -> ~a.nan /\ ~b.nan /\ a.n = b.n
         [] a.tag = "List" ->
              /\ Len(a.items) = Len(b.items)
              /\ \A i \in 1..Len(a.items) : StructEq(a.items[i], b.items[i])
         [] a.tag = "Map" ->
              /\ Len(a.mkeys) = Len(b.mkeys)
              /\ \A k \in 1..Len(a.mkeys) :
                    /\ KeyPos(b, a.mkeys[k]) # 0
                    /\ StructEq(a.items[k], b.items[KeyPos(b, a.mkeys[k])])
         [] OTHER -> a.range = b.range

\* C9: == ignores paths and holds iff the two values have the same variant and
\* equal payloads (booleans the same truth value, regexes the same source,
\* lists and maps equal members); a comparison with a NaN is false.
C9_Equality ==
    op = "eq" => (result.val <=> StructEq(self, other))

Orderings == {"compare_lt", "compare_le", "compare_gt", "compare_ge"}

\* C10: compare_lt / le / gt / ge return a boolean only for two strings, two
\* ints, two floats (neither NaN) or two chars, and NotComparable for every
\* other pair of variants (bool/bool, null/null and regex/regex included).
C10_OrderingDomain ==
    op \in Orderings =>
        (result.ok <=> /\ self.tag = other.tag
                       /\ self.tag \in {"String", "Int", "Float", "Char"}
                       /\ ~self.nan /\ ~other.nan)

RECURSIVE WellPathed(_)
\* every child of v, at any depth, sits at v's path + "/" + its token, and the
\* KEYS entry of a map key is a String of that key at the child's path
WellPathed(v) ==
    CASE v.tag = "List" ->
           \A i \in 1..Len(v.items) :
              /\ v.items[i].path = v.path \o <<"/">> \o Decimal(i - 1)
              /\ WellPathed(v.items[i])
      [] v.tag = "Map" ->
           /\ Len(v.keys) = Len(v.mkeys)
           /\ Len(v.items) = Len(v.mkeys)
           /\ \A k \in 1..Len(v.mkeys) :
                 /\ v.items[k].path = v.path \o <<"/">> \o v.mkeys[k]
                 /\ v.keys[k].tag = "String"
                 /\ v.keys[k].s = v.mkeys[k]
                 /\ v.keys[k].path = v.items[k].path
                 /\ WellPathed(v.items[k])
      [] OTHER -> TRUE

\* C11: in a PathAwareValue built at the root path every list element i has
\* the path parent + "/" + decimal(i), every map value under k has the path
\* parent + "/" + k, and the KEYS entry of k is a String k at that same path.
C11_ChildPaths ==
    Selected => (self.path = root /\ WellPathed(self))

\* a map holding a list of two or more maps was built
C11_Witness ==
    /\ Selected
    /\ self.tag = "Map"
    /\ \E k \in 1..Len(self.items) :
          /\ self.items[k].tag = "List"
          /\ Len(self.items[k].items) >= 2
          /\ self.items[k].items[2].tag = "Map"

RECURSIVE Leaves(_)
\* the nodes of v that have no children, in document order
Leaves(v) ==
    IF v.tag \in {"List", "Map"} /\ Len(v.items) > 0
    THEN ConcatVals([i \in 1..Len(v.items) |-> Ok(Leaves(v.items[i]))])
    ELSE <<v>>

RECURSIVE Tokens(_, _)
\* the tokens of a path: each starts after a "/" and runs to the next one
Tokens(path, acc) ==
    IF path = <<>> THEN acc
    ELSE IF Head(path) = "/" THEN Tokens(Tail(path), Append(acc, <<>>))
    ELSE Tokens(Tail(path),
                [acc EXCEPT ![Len(acc)] = Append(acc[Len(acc)], Head(path))])

\* one Key part per token of the path
KeyWalk(path) ==
    [i \in 1..Len(Tokens(path, <<>>)) |-> Key(Tokens(path, <<>>)[i])]

RECURSIVE HasDigitKey(_)
\* whether a map of v, at any depth, has a key that parses as an i32
HasDigitKey(v) ==
    \/ v.tag = "Map" /\ \E k \in 1..Len(v.mkeys) : ParseI32(v.mkeys[k]).ok
    \/ v.tag \in {"List", "Map"} /\ \E i \in 1..Len(v.items) : HasDigitKey(v.items[i])

\* C12: walking a leaf's path from the root, one Key part per token, returns
\* exactly that leaf, for every document, maps with digit-string keys included.
C12_LeafRoundTrip ==
    Selected =>
        \A l \in 1..Len(Leaves(self)) :
           query = KeyWalk(Leaves(self)[l].path) => result = Ok(<<Leaves(self)[l]>>)

\* ---------------------------------------------- guard: rules/exprs/query.rs

\* Path::new(&[..]): a guard Path is the list of its parts
Path_new(parts) == parts

\* Path::append(String)
Path_append(path, part) == Append(path, part)

\* Path::append_str(&str)
Path_append_str(path, part) == Path_append(path, part)

\* i32::to_string
i32_to_string(n) ==
    IF n = I32Min THEN MinKey
    ELSE IF n < 0 THEN <<"-">> \o Decimal(-n)
    ELSE Decimal(n)

\* the parts of a guard query that path_value.rs does not have
AllKeys == QueryPart("AllKeys", <<>>, 0, NoConj)
Variable(name) == QueryPart("Variable", name, 0, NoConj)
KeysFilter(pattern) == QueryPart("Filter", pattern, 0, NoConj)

\* QueryPart::is_variable
is_variable(part) == part.part = "Variable"

\* one (Path, &Value) entry of ResolvedValues
Entry(path, v) == [path |-> path, value |-> v]

\* ResolvedValues::insert: an insertion-ordered map keyed by the path
rv_insert(results, path, v) ==
    IF \E i \in 1..Len(results) : results[i].path = path
    THEN [results EXCEPT ![CHOOSE i \in 1..Len(results) : results[i].path = path] =
             Entry(path, v)]
    ELSE Append(results, Entry(path, v))

RECURSIVE rv_extend(_, _)
\* ResolvedValues::extend
rv_extend(results, more) ==
    IF more = <<>> THEN results
    ELSE rv_extend(rv_insert(results, Head(more).path, Head(more).value), Tail(more))

\* helper::match_list
match_list(v) ==
    IF v.tag = "List" THEN Ok(v.items) ELSE Err("IncompatibleError", <<>>)

\* helper::match_map
match_map(v) ==
    IF v.tag = "Map" THEN Ok(v.items) ELSE Err("IncompatibleError", <<>>)

\* helper::retrieve_index: the element at |index| of a list
helper_retrieve_index(index, v, checks) ==
    IF match_list(v).kind # "Ok" THEN match_list(v)
    ELSE IF index < 0 /\ NegOverflows(index) /\ checks THEN Err("Panic", <<>>)
    ELSE LET check == IF index >= 0 THEN index ELSE WrappingNeg(index)
         IN IF UsizeLess(check, Len(v.items))
            THEN Ok(<<v.items[check + 1]>>)
            ELSE Err("RetrievalError", <<>>)

\* helper::retrieve_key: the value under key of a map
retrieve_key(key, v) ==
    IF match_map(v).kind # "Ok" THEN match_map(v)
    ELSE IF \E k \in 1..Len(v.keys) : v.keys[k] = key
         THEN Ok(<<v.items[CHOOSE k \in 1..Len(v.keys) : v.keys[k] = key]>>)
         ELSE Err("RetrievalError", <<>>)

RECURSIVE resolve_loop(_, _, _, _, _)
RECURSIVE handle_array_loop(_, _, _, _, _, _, _)
RECURSIVE handle_map_loop(_, _, _, _, _, _, _)

\* QueryResolver::resolve_query, from part i of the query on (parts count from 1)
resolve_loop(q, i, value_ref, path_ref, checks) ==
    IF i > Len(q) THEN Ok(rv_insert(<<>>, path_ref, value_ref))
    ELSE IF is_variable(q[i]) THEN Err("IncompatibleError", <<>>)
    ELSE CASE q[i].part = "Key" ->
                LET parsed == ParseI32(q[i].key)
                    got == IF parsed.ok
                           THEN helper_retrieve_index(parsed.val, value_ref, checks)
                           ELSE retrieve_key(q[i].key, value_ref)
                    next_path == IF parsed.ok
                                 THEN Path_append(path_ref, i32_to_string(parsed.val))
                                 ELSE Path_append_str(path_ref, q[i].key)
                IN  IF got.kind # "Ok" THEN got
                    ELSE resolve_loop(q, i + 1, got.vals[1], next_path, checks)
           [] q[i].part = "Index" ->
                LET got == helper_retrieve_index(q[i].idx, value_ref, checks)
                IN  IF got.kind # "Ok" THEN got
                    ELSE resolve_loop(q, i + 1, got.vals[1],
                             Path_append(path_ref, i32_to_string(q[i].idx)), checks)
           [] q[i].part = "AllKeys" ->
                IF match_list(value_ref).kind # "Ok"
                THEN IF match_map(value_ref).kind # "Ok" THEN match_map(value_ref)
                     ELSE handle_map_loop(value_ref, i, path_ref, q, checks, 1, <<>>)
                ELSE handle_array_loop(value_ref.items, i, path_ref, q, checks, 1, <<>>)
           [] q[i].part = "AllIndices" ->
                IF match_list(value_ref).kind # "Ok" THEN match_list(value_ref)
                ELSE handle_array_loop(value_ref.items, i, path_ref, q, checks, 1, <<>>)
           [] OTHER -> Err("Panic", <<>>)

\* QueryResolver::handle_array, from element each (elements count from 1)
handle_array_loop(array, index, path, q, checks, each, results) ==
    IF each > Len(array) THEN Ok(results)
    ELSE LET sub_path == Path_append(path, Decimal(each - 1))
             sub_query == resolve_loop(SubSeq(q, index + 1, Len(q)), 1,
                                       array[each], sub_path, checks)
         IN  IF sub_query.kind # "Ok" THEN sub_query
             ELSE handle_array_loop(array, index, path, q, checks, each + 1,
                                    rv_extend(results, sub_query.vals))

\* QueryResolver::handle_map, from entry each of the map (in insertion order)
handle_map_loop(map, index, path, q, checks, each, results) ==
    IF each > Len(map.keys) THEN Ok(results)
    ELSE LET sub_path == Path_append_str(path, map.keys[each])
             sub_query == resolve_loop(SubSeq(q, index + 1, Len(q)), 1,
                                       map.items[each], sub_path, checks)
         IN  IF sub_query.kind # "Ok" THEN sub_query
             ELSE handle_map_loop(map, index, path, q, checks, each + 1,
                                  rv_extend(results, sub_query.vals))

resolve_query(q, v, path, checks) == resolve_loop(q, 1, v, path, checks)

\* the start path of the tests: Path::new(&["/"])
StartPath == Path_new(<< <<"/">> >>)

Policy == <<"P", "o", "l", "i", "c", "y">>
Statement == <<"S", "t", "a", "t", "e", "m", "e", "n", "t">>
Condition == <<"C", "o", "n", "d", "i", "t", "i", "o", "n">>
StringEquals == <<"S", "t", "r", "i", "n", "g", "E", "q", "u", "a", "l", "s">>
aws_source == <<"a", "w", "s", ":", "S", "o", "u", "r", "c", "e">>

\* IAM_TEMPLATE, without the Version, Effect, Action and Resource strings
IamPolicy ==
    VMap(<<Policy>>, <<
        VMap(<<Statement>>, <<
            VList(<<
                VMap(<<<<"S", "i", "d">>, Condition>>, <<
                    VString(sa),
                    VMap(<<<<"B", "o", "o", "l">>, StringEquals>>, <<
                        VMap(<<<<"a", "w", "s", ":", "V", "i", "a", "A", "W", "S", "S", "e", "r", "v", "i", "c", "e">>>>, <<VString(<<"f", "a", "l", "s", "e">>)>>),
                        VMap(<<<<"a", "w", "s", ":", "S", "o", "u", "r", "c", "e", "V", "p", "c">>>>, <<VString(<<"v", "p", "c">>)>>)>>)>>),
                VMap(<<<<"S", "i", "d">>, Condition>>, <<
                    VString(sb),
                    VMap(<<<<"B", "o", "o", "l">>>>, <<
                        VMap(<<<<"a", "w", "s", ":", "V", "i", "a", "A", "W", "S", "S", "e", "r", "v", "i", "c", "e">>>>, <<VString(<<"t", "r", "u", "e">>)>>)>>)>>)>>)>>)>>)

\* Policy.Statement[*].Condition.*[ KEYS == /aws:[sS]ource(..)/ ]
IamQuery ==
    <<Key(Policy), Key(Statement), AllIndices, Key(Condition), AllKeys,
      KeysFilter(aws_source)>>

GuardDocuments == {IamPolicy, DocServers, DocDigitKeys, DocLists, DocMaps, DocNested}

GuardParts ==
    {Key(Policy), Key(Statement), Key(servers), Key(sa), Key(s0), Index(0),
     Index(1), Index(-1), AllIndices, AllKeys, Variable(sa), KeysFilter(aws_source)}

GuardQueries ==
    {IamQuery, ServersQuery} \cup
    UNION {[1..n -> GuardParts] : n \in 0..MaxQueryLen}

\* resolver.resolve_query(&query, &root, &scope, Path::new(&["/"]), &eval)
CallResolveQuery ==
    /\ op = "none"
    /\ \E d \in GuardDocuments, q \in GuardQueries :
          /\ value' = d
          /\ query' = q
          /\ result' = resolve_query(q, d, StartPath, overflow_checks)
    /\ op' = "resolve_query"
    /\ UNCHANGED <<overflow_checks, self, other, all, input, files, data_files, rules, scope>>

\* -------------------------------------------- guard: rules/parser2/expr.rs

\* nom::IResult over a span: Ok carries the position of the remainder and the
\* output, Err::Error and Err::Failure carry the position of the error's span
POk(pos, out) == [kind |-> "Ok", pos |-> pos, out |-> out]
PError(pos) == [kind |-> "Error", pos |-> pos, out |-> <<>>]
PFailure(pos) == [kind |-> "Failure", pos |-> pos, out |-> <<>>]

Lower ==
    {"a", "b", "c", "d", "e", "f", "g", "h", "i", "j", "k", "l", "m",
     "n", "o", "p", "q", "r", "s", "t", "u", "v", "w", "x", "y", "z"}
Upper ==
    {"A", "B", "C", "D", "E", "F", "G", "H", "I", "J", "K", "L", "M",
     "N", "O", "P", "Q", "R", "S", "T", "U", "V", "W", "X", "Y", "Z"}
Alpha == Lower \cup Upper
DigitChars == {Digits[i] : i \in 1..10}
SpaceTab == {" ", "\t"}
Multispace == {" ", "\t", "\n", "\r"}

\* sequencing: v is evaluated once and its value handed to F, as a `let` of
\* the source binds the result of a call
Bind(v, F(_)) == CHOOSE y \in {F(r) : r \in {v}} : TRUE

\* the position after the longest run of characters of S that starts at pos
TakeWhile(text, pos, S) ==
    CHOOSE p \in pos..(Len(text) + 1) :
        /\ \A i \in pos..(p - 1) : text[i] \in S
        /\ p = Len(text) + 1 \/ text[p] \notin S

\* nom tag(t)
tag(t, text, pos) ==
    IF pos + Len(t) - 1 <= Len(text) /\ SubSeq(text, pos, pos + Len(t) - 1) = t
    THEN POk(pos + Len(t), t)
    ELSE PError(pos)

\* nom char(c)
char(c, text, pos) == tag(<<c>>, text, pos)

\* nom take_while1 over a class of characters
take_while1(S, text, pos) ==
    Bind(TakeWhile(text, pos, S), LAMBDA e :
        IF e = pos THEN PError(pos) ELSE POk(e, SubSeq(text, pos, e - 1)))

\* nom space1, space0, alpha1, multispace1, newline
space1(text, pos) == take_while1(SpaceTab, text, pos)
space0(text, pos) == POk(TakeWhile(text, pos, SpaceTab), <<>>)
alpha1(text, pos) == take_while1(Alpha, text, pos)
multispace1(text, pos) == take_while1(Multispace, text, pos)
newline(text, pos) == char("\n", text, pos)

\* common::comment2: '#', the rest of the line, and its '\n'
comment2(text, pos) ==
    IF char("#", text, pos).kind # "Ok" THEN PError(pos)
    ELSE Bind(CHOOSE p \in (pos + 1)..(Len(text) + 1) :
                 /\ \A i \in (pos + 1)..(p - 1) : text[i] # "\n"
                 /\ p = Len(text) + 1 \/ text[p] = "\n",
              LAMBDA e : IF e > Len(text) THEN PError(e) ELSE POk(e + 1, <<>>))

\* common::white_space_or_comment
white_space_or_comment(text, pos) ==
    Bind(multispace1(text, pos), LAMBDA sp :
        IF sp.kind = "Ok" THEN POk(sp.pos, <<>>) ELSE comment2(text, pos))

RECURSIVE zero_or_more_ws_or_comment(_, _)
\* common::zero_or_more_ws_or_comment
zero_or_more_ws_or_comment(text, pos) ==
    Bind(white_space_or_comment(text, pos), LAMBDA ws :
        IF ws.kind = "Ok" THEN zero_or_more_ws_or_comment(text, ws.pos)
        ELSE POk(pos, <<>>))

\* common::one_or_more_ws_or_comment
one_or_more_ws_or_comment(text, pos) ==
    Bind(white_space_or_comment(text, pos), LAMBDA ws :
        IF ws.kind = "Ok" THEN zero_or_more_ws_or_comment(text, ws.pos)
        ELSE PError(pos))

\* var_name: alpha1, then alphanumerics and '_'
var_name(text, pos) ==
    Bind(alpha1(text, pos), LAMBDA first_part :
        IF first_part.kind # "Ok" THEN PError(pos)
        ELSE Bind(TakeWhile(text, first_part.pos, Alpha \cup DigitChars \cup {"_"}),
                  LAMBDA e : POk(e, SubSeq(text, pos, e - 1))))

\* var_name_access: '%' var_name
var_name_access(text, pos) ==
    IF char("%", text, pos).kind # "Ok" THEN PError(pos)
    ELSE var_name(text, pos + 1)

\* ValueOperator::Cmp(op) and ValueOperator::Not(op)
Cmp(o) == [not |-> FALSE, op |-> o]
Not(o) == [not |-> TRUE, op |-> o]

\* in_keyword
in_keyword(text, pos) ==
    IF tag(<<"i", "n">>, text, pos).kind = "Ok" THEN POk(pos + 2, "In")
    ELSE IF tag(<<"I", "N">>, text, pos).kind = "Ok" THEN POk(pos + 2, "In")
    ELSE PError(pos)

\* not: "not" or "NOT" and at least one space or tab, or else '!'
not(text, pos) ==
    IF tag(<<"n", "o", "t">>, text, pos).kind = "Ok" /\ space1(text, pos + 3).kind = "Ok"
    THEN POk(space1(text, pos + 3).pos, <<>>)
    ELSE IF tag(<<"N", "O", "T">>, text, pos).kind = "Ok" /\ space1(text, pos + 3).kind = "Ok"
    THEN POk(space1(text, pos + 3).pos, <<>>)
    ELSE IF char("!", text, pos).kind = "Ok" THEN POk(pos + 1, <<>>)
    ELSE PError(pos)

\* eq: "==" or "!="
parse_eq(text, pos) ==
    IF tag(<<"=", "=">>, text, pos).kind = "Ok" THEN POk(pos + 2, Cmp("Eq"))
    ELSE IF tag(<<"!", "=">>, text, pos).kind = "Ok" THEN POk(pos + 2, Not("Eq"))
    ELSE PError(pos)

\* keys: "KEYS" or "keys" and at least one space or tab
keys(text, pos) ==
    IF tag(<<"K", "E", "Y", "S">>, text, pos).kind # "Ok" /\ tag(<<"k", "e", "y", "s">>, text, pos).kind # "Ok"
    THEN PError(pos)
    ELSE Bind(space1(text, pos + 4), LAMBDA sp :
            IF sp.kind # "Ok" THEN PError(pos + 4) ELSE POk(sp.pos, <<>>))

\* exists
exists(text, pos) ==
    IF tag(<<"E", "X", "I", "S", "T", "S">>, text, pos).kind = "Ok" \/ tag(<<"e", "x", "i", "s", "t", "s">>, text, pos).kind = "Ok"
    THEN POk(pos + 6, "Exists")
    ELSE PError(pos)

\* empty
empty(text, pos) ==
    IF tag(<<"E", "M", "P", "T", "Y">>, text, pos).kind = "Ok" \/ tag(<<"e", "m", "p", "t", "y">>, text, pos).kind = "Ok"
    THEN POk(pos + 5, "Empty")
    ELSE PError(pos)

\* other_operations: opt(not), then in_keyword, exists or empty
other_operations(text, pos) ==
    Bind(not(text, pos), LAMBDA negation :
    Bind(IF negation.kind = "Ok" THEN negation.pos ELSE pos, LAMBDA at :
    Bind(IF in_keyword(text, at).kind = "Ok" THEN in_keyword(text, at)
         ELSE IF exists(text, at).kind = "Ok" THEN exists(text, at)
         ELSE empty(text, at), LAMBDA operation :
        IF operation.kind # "Ok" THEN PError(at)
        ELSE POk(operation.pos,
                 IF negation.kind = "Ok" THEN Not(operation.out)
                 ELSE Cmp(operation.out)))))

\* keys_keyword: keys, then eq or other_operations, made a KEYS comparator
keys_keyword(text, pos) ==
    Bind(keys(text, pos), LAMBDA word :
        IF word.kind # "Ok" THEN word
        ELSE Bind(IF parse_eq(text, word.pos).kind = "Ok" THEN parse_eq(text, word.pos)
                  ELSE other_operations(text, word.pos), LAMBDA comparator :
                IF comparator.kind # "Ok" THEN comparator
                ELSE Bind(CASE comparator.out.op = "Eq" -> "KeysEq"
                            [] comparator.out.op = "In" -> "KeysIn"
                            [] comparator.out.op = "Exists" -> "KeysExists"
                            [] comparator.out.op = "Empty" -> "KeysEmpty", LAMBDA keyed :
                        POk(comparator.pos,
                            IF comparator.out.not THEN Not(keyed) ELSE Cmp(keyed)))))

\* value_cmp: the alternatives in the order of the source
value_cmp(text, pos) ==
    IF parse_eq(text, pos).kind = "Ok" THEN parse_eq(text, pos)
    ELSE IF tag(<<">", "=">>, text, pos).kind = "Ok" THEN POk(pos + 2, Cmp("Ge"))
    ELSE IF tag(<<"<", "=">>, text, pos).kind = "Ok" THEN POk(pos + 2, Cmp("Le"))
    ELSE IF char(">", text, pos).kind = "Ok" THEN POk(pos + 1, Cmp("Gt"))
    ELSE IF char("<", text, pos).kind = "Ok" THEN POk(pos + 1, Cmp("Lt"))
    ELSE Bind(keys_keyword(text, pos), LAMBDA keyed :
            IF keyed.kind = "Ok" THEN keyed ELSE other_operations(text, pos))

\* Option<String>
None == [some |-> FALSE, val |-> <<>>]
Some(s) == [some |-> TRUE, val |-> s]

\* extract_message: the text up to the first ">>"; a Failure when there is none
extract_message(text, pos) ==
    IF \E p \in pos..(Len(text) - 1) : text[p] = ">" /\ text[p + 1] = ">"
    THEN Bind(CHOOSE p \in pos..(Len(text) - 1) :
                 /\ text[p] = ">" /\ text[p + 1] = ">"
                 /\ \A r \in pos..(p - 1) : ~(text[r] = ">" /\ text[r + 1] = ">"),
              LAMBDA v : POk(v, SubSeq(text, pos, v - 1)))
    ELSE PFailure(pos)

\* custom_message: "<<", extract_message, ">>"
custom_message(text, pos) ==
    IF tag(<<"<", "<">>, text, pos).kind # "Ok" THEN PError(pos)
    ELSE Bind(extract_message(text, pos + 2), LAMBDA message :
            IF message.kind # "Ok" THEN message
            ELSE POk(message.pos + 2, message.out))

\* one part of dotted_access: '.', then a name, a %name, '*' or digits
dotted_part(text, pos) ==
    IF char(".", text, pos).kind # "Ok" THEN PError(pos)
    ELSE Bind(var_name(text, pos + 1), LAMBDA name :
         IF name.kind = "Ok" THEN name
         ELSE Bind(var_name_access(text, pos + 1), LAMBDA variable :
              IF variable.kind = "Ok" THEN POk(variable.pos, <<"%">> \o variable.out)
              ELSE IF char("*", text, pos + 1).kind = "Ok" THEN POk(pos + 2, <<"*">>)
              ELSE take_while1(DigitChars, text, pos + 1)))

RECURSIVE dotted_access_loop(_, _, _)
\* fold_many1: parts are folded until one does not parse
dotted_access_loop(text, pos, acc) ==
    Bind(dotted_part(text, pos), LAMBDA part :
        IF part.kind # "Ok" THEN POk(pos, acc)
        ELSE Bind(Append(acc, part.out), LAMBDA folded :
                dotted_access_loop(text, part.pos, folded)))

\* dotted_access: at least one part
dotted_access(text, pos) ==
    IF dotted_part(text, pos).kind # "Ok" THEN PError(pos)
    ELSE dotted_access_loop(text, pos, <<>>)

\* struct PropertyAccess
PropertyAccess(var_access, property_dotted_notation) ==
    [var_access |-> var_access, property_dotted_notation |-> property_dotted_notation]

NoAccess == PropertyAccess(None, <<>>)

\* access: %name [dotted_access], or name [dotted_access]
access(text, pos) ==
    Bind(var_name_access(text, pos), LAMBDA variable :
    IF variable.kind = "Ok"
    THEN Bind(dotted_access(text, variable.pos), LAMBDA dotted :
            IF dotted.kind = "Ok"
            THEN POk(dotted.pos, PropertyAccess(Some(variable.out), dotted.out))
            ELSE POk(variable.pos, PropertyAccess(Some(variable.out), <<>>)))
    ELSE Bind(var_name(text, pos), LAMBDA first :
         IF first.kind = "Ok"
         THEN Bind(dotted_access(text, first.pos), LAMBDA dotted :
                 IF dotted.kind = "Ok"
                 THEN POk(dotted.pos, PropertyAccess(None, <<first.out>> \o dotted.out))
                 ELSE POk(first.pos, PropertyAccess(None, <<first.out>>)))
         ELSE PError(pos)))

\* values::parse_value, for the integer literals the model's texts hold
parse_value(text, pos) ==
    Bind(take_while1(DigitChars, text, pos), LAMBDA digits :
        IF digits.kind # "Ok" THEN PError(pos)
        ELSE POk(digits.pos, VInt(ParseI32(digits.out).val)))

\* Option<LetValue>
NoCompare == [kind |-> "None", access |-> NoAccess, value |-> VNull]
LetPropertyAccess(rhs) == [kind |-> "PropertyAccess", access |-> rhs, value |-> VNull]
LetValue(rhs) == [kind |-> "Value", access |-> NoAccess, value |-> rhs]

\* GuardClause::Clause(Clause { .. }, negation); the location is the offset
GuardClause_Clause(lhs, comparator, compare_with, message, location, negation) ==
    [type |-> "Clause", name |-> <<>>, access |-> lhs, comparator |-> comparator,
     compare_with |-> compare_with, custom_message |-> message,
     location |-> location, negation |-> negation]

\* GuardClause::NamedRule(name, location, negation, message)
GuardClause_NamedRule(name, location, negation, message) ==
    [type |-> "NamedRule", name |-> name, access |-> NoAccess,
     comparator |-> Cmp("None"), compare_with |-> NoCompare,
     custom_message |-> message, location |-> location, negation |-> negation]

\* a cut that lets the alternatives go on, which nom's cut does not
cut_recoverable(r) == r

\* nom cut: an Error becomes a Failure
cut(r) == IF r.kind = "Error" THEN PFailure(r.pos) ELSE r

\* preceded(zero_or_more_ws_or_comment, opt(custom_message))
opt_message(text, pos) ==
    Bind(zero_or_more_ws_or_comment(text, pos), LAMBDA ws :
    Bind(custom_message(text, ws.pos), LAMBDA message :
        IF message.kind = "Ok" THEN POk(message.pos, Some(message.out))
        ELSE IF message.kind = "Error" THEN POk(ws.pos, None)
        ELSE message))

\* the right-hand side of a binary comparator: an access or a value, and the
\* optional message after it
compare_with_message(text, pos) ==
    Bind(access(text, pos), LAMBDA rhs :
    IF rhs.kind = "Ok"
    THEN Bind(opt_message(text, rhs.pos), LAMBDA msg :
            IF msg.kind # "Ok" THEN msg
            ELSE POk(msg.pos, [compare_with |-> LetPropertyAccess(rhs.out),
                               custom_message |-> msg.out]))
    ELSE Bind(parse_value(text, pos), LAMBDA literal :
         IF literal.kind = "Ok"
         THEN Bind(opt_message(text, literal.pos), LAMBDA msg :
                 IF msg.kind # "Ok" THEN msg
                 ELSE POk(msg.pos, [compare_with |-> LetValue(literal.out),
                                    custom_message |-> msg.out]))
         ELSE literal))

\* the comparators that take no right-hand side
no_rhs_expected(comparator) ==
    comparator.op \in {"KeysExists", "KeysEmpty", "Empty", "Exists"}

\* tuple((access, one_or_more_ws_or_comment, value_cmp, one_or_more_ws_or_comment))
clause_head(text, pos) ==
    Bind(access(text, pos), LAMBDA lhs :
    IF lhs.kind # "Ok" THEN lhs
    ELSE Bind(one_or_more_ws_or_comment(text, lhs.pos), LAMBDA ws1 :
    IF ws1.kind # "Ok" THEN ws1
    ELSE Bind(value_cmp(text, ws1.pos), LAMBDA comparator :
    IF comparator.kind # "Ok" THEN comparator
    ELSE Bind(one_or_more_ws_or_comment(text, comparator.pos), LAMBDA ws2 :
    IF ws2.kind # "Ok" THEN ws2
    ELSE POk(ws2.pos, [lhs |-> lhs.out, cmp |-> comparator.out])))))

\* clause: opt(not) and then the head are both parsed from the start of the
\* input; a unary comparator's message is looked for at the start of the input
clause(text, pos) ==
    Bind(not(text, pos).kind = "Ok", LAMBDA negation :
    Bind(clause_head(text, pos), LAMBDA head :
    IF head.kind # "Ok" THEN head
    ELSE IF no_rhs_expected(head.out.cmp)
    THEN Bind(cut(opt_message(text, pos)), LAMBDA msg :
            IF msg.kind # "Ok" THEN msg
            ELSE POk(msg.pos,
                     GuardClause_Clause(head.out.lhs, head.out.cmp, NoCompare,
                                        msg.out, pos, negation)))
    ELSE Bind(cut(compare_with_message(text, head.pos)), LAMBDA rhs :
            IF rhs.kind # "Ok" THEN rhs
            ELSE POk(rhs.pos,
                     GuardClause_Clause(head.out.lhs, head.out.cmp,
                                        rhs.out.compare_with,
                                        rhs.out.custom_message, pos, negation)))))

\* or_term: "or", "OR" or "|OR|"
or_term(text, pos) ==
    IF tag(<<"o", "r">>, text, pos).kind = "Ok" THEN tag(<<"o", "r">>, text, pos)
    ELSE IF tag(<<"O", "R">>, text, pos).kind = "Ok" THEN tag(<<"O", "R">>, text, pos)
    ELSE tag(<<"|", "O", "R", "|">>, text, pos)

\* or_join: an or_term between white space or comments on both sides
or_join(text, pos) ==
    Bind(one_or_more_ws_or_comment(text, pos), LAMBDA before :
    IF before.kind # "Ok" THEN before
    ELSE Bind(or_term(text, before.pos), LAMBDA term :
    IF term.kind # "Ok" THEN term
    ELSE one_or_more_ws_or_comment(text, term.pos)))

\* the peek of rule_clause: a newline or a comment after spaces, or an or_join
rule_clause_peek(text, pos) ==
    Bind(space0(text, pos).pos, LAMBDA at :
        \/ newline(text, at).kind = "Ok"
        \/ comment2(text, at).kind = "Ok"
        \/ or_join(text, pos).kind = "Ok")

\* rule_clause
rule_clause(text, pos) ==
    Bind(not(text, pos), LAMBDA negation :
    Bind(var_name(text, IF negation.kind = "Ok" THEN negation.pos ELSE pos),
         LAMBDA ct_type :
    IF ct_type.kind # "Ok" THEN ct_type
    ELSE IF rule_clause_peek(text, ct_type.pos)
    THEN POk(ct_type.pos,
             GuardClause_NamedRule(ct_type.out, pos, negation.kind = "Ok", None))
    ELSE Bind(custom_message(text, space0(text, ct_type.pos).pos),
              LAMBDA message :
            IF message.kind # "Ok" THEN message
            ELSE POk(message.pos,
                     GuardClause_NamedRule(ct_type.out, pos, negation.kind = "Ok",
                                           Some(message.out))))))

\* preceded(zero_or_more_ws_or_comment, alt((clause, rule_clause)))
clause_or_rule_clause(text, pos) ==
    Bind(zero_or_more_ws_or_comment(text, pos).pos, LAMBDA at :
    Bind(clause(text, at), LAMBDA parsed :
        IF parsed.kind = "Error" THEN rule_clause(text, at) ELSE parsed))

RECURSIVE separated_list_loop(_, _, _)
\* nom separated_list, after its first element: a separator and an element
\* at a time; an Error of either ends the list where the last element ended
separated_list_loop(text, i, res) ==
    Bind(or_join(text, i), LAMBDA sep :
    IF sep.kind = "Error" THEN POk(i, res)
    ELSE IF sep.kind # "Ok" THEN sep
    ELSE IF sep.pos = i THEN PError(i)
    ELSE Bind(clause_or_rule_clause(text, sep.pos), LAMBDA elem :
         IF elem.kind = "Error" THEN POk(i, res)
         ELSE IF elem.kind # "Ok" THEN elem
         ELSE IF elem.pos = i THEN PError(i)
         ELSE Bind(Append(res, elem.out), LAMBDA pushed :
                 separated_list_loop(text, elem.pos, pushed))))

\* nom separated_list(or_join, ..): an element that consumes nothing is an Error
separated_list(text, i) ==
    Bind(clause_or_rule_clause(text, i), LAMBDA first :
        IF first.kind = "Error" THEN POk(i, <<>>)
        ELSE IF first.kind # "Ok" THEN first
        ELSE IF first.pos = i THEN PError(i)
        ELSE separated_list_loop(text, first.pos, <<first.out>>))

\* ConjunctionClause::And(clause) and ConjunctionClause::Or(clauses, false)
ConjunctionClause_And(c) == [join |-> "And", clauses |-> <<c>>]
ConjunctionClause_Or(set) == [join |-> "Or", clauses |-> set]

RECURSIVE clauses_loop(_, _, _)
\* the loop of clauses: one separated list a turn, until an empty one
clauses_loop(text, remaining, acc) ==
    Bind(separated_list(text, remaining), LAMBDA set :
        IF set.kind # "Ok" THEN set
        ELSE IF Len(set.out) = 0 THEN POk(set.pos, acc)
        ELSE Bind(Append(acc, IF Len(set.out) = 1
                              THEN ConjunctionClause_And(set.out[1])
                              ELSE ConjunctionClause_Or(set.out)), LAMBDA pushed :
                clauses_loop(text, set.pos, pushed)))

\* clauses
clauses(text, pos) == clauses_loop(text, pos, <<>>)

\* nom's separated_list without its guard against an element that consumes
\* nothing
separated_list_unguarded(text, i) ==
    Bind(clause_or_rule_clause(text, i), LAMBDA first :
        IF first.kind = "Error" THEN POk(i, <<>>)
        ELSE IF first.kind # "Ok" THEN first
        ELSE IF first.pos = i THEN POk(i, <<first.out>>)
        ELSE separated_list_loop(text, first.pos, <<first.out>>))

\* one turn of the loop with the unguarded list
clauses_turn_unguarded(text, remaining, conjunctions) ==
    Bind(separated_list_unguarded(text, remaining), LAMBDA set :
        IF set.kind # "Ok" THEN [returned |-> TRUE, result |-> set]
        ELSE IF Len(set.out) = 0
        THEN [returned |-> TRUE, result |-> POk(set.pos, conjunctions)]
        ELSE [returned |-> FALSE,
              result |-> POk(set.pos, Append(conjunctions, ConjunctionClause_Or(set.out)))])

\* one turn of the loop of clauses: the separated list at remaining, then a
\* return (with the error, or with the conjunctions when the list is empty)
\* or a push and the next turn at the rest
clauses_turn(text, remaining, conjunctions) ==
    Bind(separated_list(text, remaining), LAMBDA set :
        IF set.kind # "Ok" THEN [returned |-> TRUE, result |-> set]
        ELSE IF Len(set.out) = 0
        THEN [returned |-> TRUE, result |-> POk(set.pos, conjunctions)]
        ELSE [returned |-> FALSE,
              result |-> POk(set.pos,
                             Append(conjunctions,
                                    IF Len(set.out) = 1
                                    THEN ConjunctionClause_And(set.out[1])
                                    ELSE ConjunctionClause_Or(set.out)))])

\* ------------------------------------------------------ texts for the parsers

Negations == {<<>>, <<"!">>, <<"n", "o", "t", " ">>}
Accesses == {<<>>, <<"a">>, <<"%", "a", ".", "b">>}
Separators == {<<>>, <<" ">>, <<"\n">>}
Comparators ==
    {<<"=", "=">>, <<"!", "=">>, <<">", "=">>, <<"E", "X", "I", "S", "T", "S">>, <<"!", "E", "X", "I", "S", "T", "S">>, <<"K", "E", "Y", "S", " ", "E", "X", "I", "S", "T", "S">>, <<"n", "o", "t", " ", "I", "N">>, <<"K", "E", "Y", "S", " ", "=", "=">>}
RightSides == {<<>>, <<"b">>, <<"1">>}
Messages == {<<>>, <<"<", "<", "m", ">", ">">>, <<" ", "<", "<", "m", ">", ">">>, <<" ", "<", "<", "m">>}

\* not? access WS cmp WS rhs message, each piece present, absent or malformed
ClauseTexts ==
    {n \o l \o w \o c \o x \o r \o m :
        n \in Negations, l \in Accesses, w \in Separators, c \in Comparators,
        x \in {<<>>, <<" ">>}, r \in RightSides, m \in Messages}

\* the examples of test_rule_clauses and what may follow a rule name
RuleTexts ==
    {n \o l \o m \o f :
        n \in Negations, l \in {<<>>, <<"s", "e", "c", "u", "r", "e">>}, m \in Messages,
        f \in {<<>>, <<"\n">>, <<" ", "\n">>, <<"#", "c", "\n">>, <<" ", "o", "r", " ", "b">>, <<"\n", "o", "r", "\t", "b">>, <<" ", "o", "r">>, <<" ", "=", "=", " ", "1", "0">>,
               <<" ", "x", " ", "=", " ", "1", "0">>, <<" ", "x">>}}

Elements == {<<"a">>, <<"!", "b">>, <<"a", " ", "=", "=", " ", "1">>, <<"a", " ", "E", "X", "I", "S", "T", "S">>, <<"a", " ", "<", "<", "m", ">", ">">>, <<"l", "e", "t", " ", "x">>, <<"a", " ", "=", "=", " ">>}
Joins == {<<"\n">>, <<" ", "o", "r", " ">>, <<" ">>, <<"\n", "o", "r", "\n">>}

\* up to three elements, joined by white space or by an or
ClausesTexts ==
    {l \o e : l \in {<<>>, <<" ">>}, e \in Elements \cup {<<>>}} \cup
    {l \o e \o j \o f \o t :
        l \in {<<>>, <<" ">>}, e \in Elements, j \in Joins, f \in Elements,
        t \in {<<>>, <<"\n">>}} \cup
    {e \o j \o f \o k \o g :
        e \in Elements, j \in Joins, f \in Elements, k \in Joins, g \in Elements}

MessageTexts == {<<"<", "<", "m", ">", ">">>, <<"<", "<", "m">>, <<"<", "<">>, <<"m", ">", ">">>, <<"<", "<", ">", ">">>, <<"<", "<", "m", ">", ">", "x">>, <<>>}

CallParser(name, texts) ==
    /\ op = "none"
    /\ \E t \in texts :
          /\ input' = t
          /\ result' = CASE name = "clause" -> clause(t, 1)
                         [] name = "rule_clause" -> rule_clause(t, 1)
                         [] name = "clauses" -> clauses(t, 1)
                         [] name = "custom_message" -> custom_message(t, 1)
                         [] name = "value_cmp" -> value_cmp(t, 1)
                         [] name = "keys_keyword" -> keys_keyword(t, 1)
    /\ op' = name
    /\ UNCHANGED <<overflow_checks, self, other, all, query, value, files, data_files, rules, scope>>

\* clause(from_str2(text))
CallClause == CallParser("clause", ClauseTexts \cup RuleTexts)

\* rule_clause(from_str2(text))
CallRuleClause == CallParser("rule_clause", RuleTexts \cup ClauseTexts)

\* clauses(from_str2(text))
CallClauses == CallParser("clauses", ClausesTexts \cup RuleTexts)

\* custom_message(from_str2(text))
CallCustomMessage == CallParser("custom_message", MessageTexts)

\* KEYS or keys, a gap, and what follows: every comparator of the grammar, a
\* word that is none, or nothing
KeysWords == {<<"K", "E", "Y", "S">>, <<"k", "e", "y", "s">>}
KeysGaps == {<<>>, <<" ">>, <<" ", "\t">>, <<" ", " ">>}
KeysFollowers ==
    {<<"=", "=">>, <<"!", "=">>, <<"<">>, <<"<", "=">>, <<">">>, <<">", "=">>, <<"I", "N">>, <<"i", "n">>, <<"N", "O", "T", " ", "I", "N">>, <<"n", "o", "t", " ", "i", "n">>,
     <<"!", "I", "N">>, <<"E", "X", "I", "S", "T", "S">>, <<"E", "M", "P", "T", "Y">>, <<"!", "E", "X", "I", "S", "T", "S">>, <<"N", "O", "T", " ", "E", "X", "I", "S", "T", "S">>, <<"!", "E", "M", "P", "T", "Y">>,
     <<"n", "o", "t", " ", "E", "M", "P", "T", "Y">>, <<"e", "x", "i", "s", "t", "s">>, <<"=">>, <<"a">>, <<>>}
KeysTexts ==
    {k \o g \o f \o t : k \in KeysWords, g \in KeysGaps, f \in KeysFollowers,
                        t \in {<<>>, <<" ", "a">>}}

\* keys_keyword(from_str2(text))
CallKeysKeyword == CallParser("keys_keyword", KeysTexts)

\* value_cmp(from_str2(text))
CallValueCmp == CallParser("value_cmp", Comparators \cup MessageTexts)

\* the shorter texts of clauses, for the loop taken a turn at a time
TurnTexts == {t \in ClausesTexts \cup RuleTexts : Len(t) <= MaxTurnText}

\* clauses enters its loop: no conjunction yet, the whole input remaining
\* (result holds the remaining position and the conjunctions pushed so far)
ClausesEnter ==
    /\ op = "none"
    /\ \E t \in TurnTexts :
          /\ input' = t
          /\ result' = POk(1, <<>>)
    /\ op' = "clauses_loop"
    /\ UNCHANGED <<overflow_checks, self, other, all, query, value, files, data_files, rules, scope>>

\* one turn of the loop
ClausesTurn ==
    /\ op = "clauses_loop"
    /\ result' = clauses_turn(input, result.pos, result.out).result
    /\ op' = IF clauses_turn(input, result.pos, result.out).returned
             THEN "clauses_returned" ELSE "clauses_loop"
    /\ UNCHANGED <<overflow_checks, self, other, all, query, value, input, files, data_files, rules, scope>>

NextGuard ==
    \/ CallResolveQuery
    \/ CallClause
    \/ CallRuleClause
    \/ CallClauses
    \/ CallCustomMessage
    \/ CallValueCmp
    \/ CallKeysKeyword
    \/ ClausesEnter
    \/ ClausesTurn

SpecGuard == Init /\ [][NextGuard]_vars

\* ------------------------------------------------------ claims on the guard

Resolved == op = "resolve_query"

IsPrefix(p, s) == Len(p) <= Len(s) /\ SubSeq(s, 1, Len(p)) = p

\* the KEYS filter of the IAM sample: some key of the map starts with the pattern
KeysSatisfy(v, pattern) ==
    v.tag = "Map" /\ \E k \in 1..Len(v.keys) : IsPrefix(pattern, v.keys[k])

RECURSIVE KeepSatisfying(_, _)
KeepSatisfying(entries, pattern) ==
    IF entries = <<>> THEN <<>>
    ELSE IF KeysSatisfy(Head(entries).value, pattern)
         THEN <<Head(entries)>> \o KeepSatisfying(Tail(entries), pattern)
         ELSE KeepSatisfying(Tail(entries), pattern)

PartKinds(q) == [i \in 1..Len(q) |-> q[i].part]

\* C13: on a query Key, Key, AllIndices, Key, AllKeys, Filter(KEYS == pattern)
\* resolve_query returns (it does not abort) exactly the nodes the prefix
\* reaches whose keys satisfy the filter, each under its own absolute path; on
\* the IAM sample that is the one node /Policy/Statement/0/Condition/StringEquals.
C13_FilterByKeys ==
    (/\ Resolved
     /\ PartKinds(query) = <<"Key", "Key", "AllIndices", "Key", "AllKeys", "Filter">>
     /\ resolve_query(SubSeq(query, 1, 5), value, StartPath, overflow_checks).kind = "Ok")
    => result = Ok(KeepSatisfying(
                  resolve_query(SubSeq(query, 1, 5), value, StartPath,
                                overflow_checks).vals,
                  query[6].key))

\* whether key is one of the keys of the map v
HasKey(v, key) == v.tag = "Map" /\ \E k \in 1..Len(v.keys) : v.keys[k] = key

ValueAt(v, key) == v.items[CHOOSE k \in 1..Len(v.keys) : v.keys[k] = key]

\* a Key that names a list position: the decimal form of an index of the list
NamesIndex(v, key) ==
    /\ v.tag = "List"
    /\ ParseI32(key).ok
    /\ ParseI32(key).val >= 0
    /\ ParseI32(key).val < Len(v.items)
    /\ Decimal(ParseI32(key).val) = key

RECURSIVE TargetsExist(_, _)
\* every step of q has its target in the document, under every wildcard too
TargetsExist(q, v) ==
    IF q = <<>> THEN TRUE
    ELSE CASE Head(q).part = "Key" ->
                \/ HasKey(v, Head(q).key) /\ TargetsExist(Tail(q), ValueAt(v, Head(q).key))
                \/ /\ NamesIndex(v, Head(q).key)
                   /\ TargetsExist(Tail(q), v.items[ParseI32(Head(q).key).val + 1])
           [] Head(q).part = "Index" ->
                /\ v.tag = "List"
                /\ Head(q).idx >= 0
                /\ Head(q).idx < Len(v.items)
                /\ TargetsExist(Tail(q), v.items[Head(q).idx + 1])
           [] Head(q).part = "AllIndices" ->
                /\ v.tag = "List"
                /\ \A i \in 1..Len(v.items) : TargetsExist(Tail(q), v.items[i])
           [] Head(q).part = "AllKeys" ->
                /\ v.tag = "Map"
                /\ \A i \in 1..Len(v.items) : TargetsExist(Tail(q), v.items[i])
           [] OTHER -> FALSE

RECURSIVE Matched(_, _, _)
\* the nodes q matches from v, in document order, each with the start path
\* extended by the token of every step (TargetsExist(q, v) is assumed)
Matched(q, v, path) ==
    IF q = <<>> THEN <<Entry(path, v)>>
    ELSE CASE Head(q).part = "Key" ->
                IF HasKey(v, Head(q).key)
                THEN Matched(Tail(q), ValueAt(v, Head(q).key), Append(path, Head(q).key))
                ELSE Matched(Tail(q), v.items[ParseI32(Head(q).key).val + 1],
                             Append(path, Head(q).key))
           [] Head(q).part = "Index" ->
                Matched(Tail(q), v.items[Head(q).idx + 1],
                        Append(path, Decimal(Head(q).idx)))
           [] Head(q).part = "AllIndices" ->
                ConcatVals([i \in 1..Len(v.items) |->
                    Ok(Matched(Tail(q), v.items[i], Append(path, Decimal(i - 1))))])
           [] OTHER ->
                ConcatVals([i \in 1..Len(v.items) |->
                    Ok(Matched(Tail(q), v.items[i], Append(path, v.keys[i])))])

HasVariable(q) == \E i \in 1..Len(q) : q[i].part = "Variable"

\* C14: a query of Key, Index, AllIndices and AllKeys parts whose targets exist
\* resolves to one entry per matched node, keyed by the start path extended by
\* the token of every step, in document order (the empty query: the one entry
\* (start path, start value)); a query with a variable part returns an
\* IncompatibleError.
C14_ResolveQuery ==
    Resolved =>
        /\ TargetsExist(query, value) =>
              result = Ok(Matched(query, value, StartPath))
        /\ HasVariable(query) => result.kind = "IncompatibleError"

ClauseCalled == op = "clause"

\* the text from position p on
From(text, p) == SubSeq(text, p, Len(text))

\* where the right-hand side that starts at p ends
RhsEnd(text, p) ==
    IF access(text, p).kind = "Ok" THEN access(text, p).pos ELSE parse_value(text, p).pos

HasRhs(text, p) == access(text, p).kind = "Ok" \/ parse_value(text, p).kind = "Ok"

\* access WS cmp WS rhs with a binary comparator, and nothing else
WellFormed(text) ==
    /\ not(text, 1).kind # "Ok"
    /\ clause_head(text, 1).kind = "Ok"
    /\ ~no_rhs_expected(clause_head(text, 1).out.cmp)
    /\ HasRhs(text, clause_head(text, 1).pos)
    /\ RhsEnd(text, clause_head(text, 1).pos) = Len(text) + 1

\* C15: for a well-formed text T = access WS cmp WS rhs, clause("!" ++ T) and
\* clause("not " ++ T) succeed with the access, comparator and right-hand side
\* of clause(T) and the negation flag set; clause(T) has the flag clear.
C15_NegatedClause ==
    ClauseCalled =>
        /\ \A n \in {<<"!">>, <<"n", "o", "t", " ">>} :
              (IsPrefix(n, input) /\ WellFormed(From(input, Len(n) + 1))) =>
                  /\ result.kind = "Ok"
                  /\ result.out.negation
                  /\ result.out.access = clause(From(input, Len(n) + 1), 1).out.access
                  /\ result.out.comparator =
                        clause(From(input, Len(n) + 1), 1).out.comparator
                  /\ result.out.compare_with =
                        clause(From(input, Len(n) + 1), 1).out.compare_with
        /\ WellFormed(input) => (result.kind = "Ok" /\ ~result.out.negation)

\* where the message of the clause is looked for: after the right-hand side of
\* a binary comparator, after a unary comparator
MessagePlace(text) ==
    IF no_rhs_expected(clause_head(text, 1).out.cmp)
    THEN clause_head(text, 1).pos
    ELSE RhsEnd(text, clause_head(text, 1).pos)

\* C16: a message <<text>> after the clause (after optional white space or
\* comments) is the clause's custom_message, after the right-hand side of a
\* binary comparator and after a unary comparator alike; without a message the
\* field is absent.
C16_CustomMessage ==
    (/\ ClauseCalled
     /\ clause_head(input, 1).kind = "Ok"
     /\ no_rhs_expected(clause_head(input, 1).out.cmp)
           \/ HasRhs(input, clause_head(input, 1).pos)
     /\ opt_message(input, MessagePlace(input)).kind = "Ok")
    => /\ result.kind = "Ok"
       /\ result.out.custom_message = opt_message(input, MessagePlace(input)).out

\* a binary comparator is committed and no right-hand side follows it
MissingRhs(text, s) ==
    /\ clause_head(text, s).kind = "Ok"
    /\ ~no_rhs_expected(clause_head(text, s).out.cmp)
    /\ ~HasRhs(text, clause_head(text, s).pos)

\* C17: once access, white space, a binary comparator and white space are
\* parsed, a missing right-hand side is a Failure whose span is the position
\* where the right-hand side was expected.
C17_MissingRhsFails ==
    (ClauseCalled /\ MissingRhs(input, 1)) =>
        result = PFailure(clause_head(input, 1).pos)

\* a clause whose right-hand side is missing was parsed, one with a message
\* in the place of the right-hand side among them
C17_Witness ==
    /\ ClauseCalled
    /\ MissingRhs(input, 1)
    /\ clause_head(input, 1).pos <= Len(input)
    /\ result.kind = "Failure"

ParserOps == {"clause", "rule_clause", "clauses", "custom_message", "value_cmp"}

\* C18: the expression parsers produce a Failure only where the right-hand
\* side of a committed comparator is missing; every other rejection, a "<<"
\* without its ">>" included, is an Error.
C18_SingleCut ==
    (op \in ParserOps /\ result.kind = "Failure") =>
        \E s \in 1..Len(input) :
            MissingRhs(input, s) /\ result.pos = clause_head(input, s).pos

RuleCalled == op = "rule_clause"

\* not? name, as rule_clause reads them
NameStart(text) == IF not(text, 1).kind = "Ok" THEN not(text, 1).pos ELSE 1
NameEnd(text) == var_name(text, NameStart(text)).pos

\* the optional message after the name (after spaces or tabs)
NameMessage(text) == custom_message(text, space0(text, NameEnd(text)).pos)

\* where the name, and the message when there is one, end
ReferenceEnd(text) ==
    IF NameMessage(text).kind = "Ok" THEN NameMessage(text).pos ELSE NameEnd(text)

\* C19: rule_clause accepts not? name only if what follows the name (and the
\* message, when there is one) is a newline after spaces or tabs, a comment or
\* an or-join; it then leaves that text unconsumed and records the negation
\* and the message; in every other case it fails with an Error.
C19_RuleClause ==
    RuleCalled =>
        IF /\ var_name(input, NameStart(input)).kind = "Ok"
           /\ rule_clause_peek(input, ReferenceEnd(input))
        THEN result =
                POk(ReferenceEnd(input),
                    GuardClause_NamedRule(
                        var_name(input, NameStart(input)).out, 1,
                        not(input, 1).kind = "Ok",
                        IF NameMessage(input).kind = "Ok"
                        THEN Some(NameMessage(input).out) ELSE None))
        ELSE result.kind = "Error"

ClausesCalled == op = "clauses"

RECURSIVE Flatten(_, _)
\* the clauses of the groups in order, each with the number of its group
Flatten(groups, g) ==
    IF g > Len(groups) THEN <<>>
    ELSE [i \in 1..Len(groups[g].clauses) |-> [group |-> g, clause |-> groups[g].clauses[i]]]
         \o Flatten(groups, g + 1)

\* whether an or-join, and nothing else, lies between the clause that starts
\* at s and the clause that starts at t
OrJoined(text, s, t) ==
    /\ clause_or_rule_clause(text, s).kind = "Ok"
    /\ or_join(text, clause_or_rule_clause(text, s).pos).kind = "Ok"
    /\ zero_or_more_ws_or_comment(text,
           or_join(text, clause_or_rule_clause(text, s).pos).pos).pos = t

\* C20: clauses returns the clauses in source order, a clause that is not
\* or-joined to a neighbour as And(c) and a maximal run of or-joined clauses as
\* one Or([..]); an element is an access clause, or else a named-rule
\* reference; parsing stops with success where neither parses and leaves the
\* rest, the white space before it included, unconsumed (empty input: no group).
C20_Clauses ==
    ClausesCalled =>
        /\ clause_or_rule_clause(input, 1).kind = "Error" => result = POk(1, <<>>)
        /\ (clause_or_rule_clause(input, 1).kind = "Ok" /\ result.kind # "Failure") =>
              /\ result.kind = "Ok"
              /\ Len(result.out) >= 1
              /\ result.out[1].clauses[1] = clause_or_rule_clause(input, 1).out
        /\ result.kind = "Ok" =>
              /\ clause_or_rule_clause(input, result.pos).kind # "Ok"
              /\ \A g \in 1..Len(result.out) :
                    \/ result.out[g].join = "And" /\ Len(result.out[g].clauses) = 1
                    \/ result.out[g].join = "Or" /\ Len(result.out[g].clauses) >= 2
              /\ LET flat == Flatten(result.out, 1)
                 IN  \A i \in 1..(Len(flat) - 1) :
                        /\ flat[i].clause.location < flat[i + 1].clause.location
                        /\ flat[i].group = flat[i + 1].group <=>
                              OrJoined(input, flat[i].clause.location,
                                       flat[i + 1].clause.location)

KeysCalled == op = "keys_keyword"

\* the comparators of the grammar: binary and unary, plain and negated
GrammarComparators ==
    {[text |-> <<"=", "=">>, cmp |-> Cmp("Eq")], [text |-> <<"!", "=">>, cmp |-> Not("Eq")],
     [text |-> <<"<">>, cmp |-> Cmp("Lt")], [text |-> <<"<", "=">>, cmp |-> Cmp("Le")],
     [text |-> <<">">>, cmp |-> Cmp("Gt")], [text |-> <<">", "=">>, cmp |-> Cmp("Ge")],
     [text |-> <<"I", "N">>, cmp |-> Cmp("In")], [text |-> <<"i", "n">>, cmp |-> Cmp("In")],
     [text |-> <<"N", "O", "T", " ", "I", "N">>, cmp |-> Not("In")], [text |-> <<"n", "o", "t", " ", "i", "n">>, cmp |-> Not("In")],
     [text |-> <<"!", "I", "N">>, cmp |-> Not("In")],
     [text |-> <<"E", "X", "I", "S", "T", "S">>, cmp |-> Cmp("Exists")],
     [text |-> <<"e", "x", "i", "s", "t", "s">>, cmp |-> Cmp("Exists")],
     [text |-> <<"E", "M", "P", "T", "Y">>, cmp |-> Cmp("Empty")],
     [text |-> <<"!", "E", "X", "I", "S", "T", "S">>, cmp |-> Not("Exists")],
     [text |-> <<"N", "O", "T", " ", "E", "X", "I", "S", "T", "S">>, cmp |-> Not("Exists")],
     [text |-> <<"!", "E", "M", "P", "T", "Y">>, cmp |-> Not("Empty")],
     [text |-> <<"n", "o", "t", " ", "E", "M", "P", "T", "Y">>, cmp |-> Not("Empty")]}

\* the comparators of the grammar that text carries at position s
ComparatorsAt(text, s) ==
    {c \in GrammarComparators : tag(c.text, text, s).kind = "Ok"}

\* the longest of them
ComparatorAt(text, s) ==
    CHOOSE c \in ComparatorsAt(text, s) :
        \A d \in ComparatorsAt(text, s) : Len(d.text) <= Len(c.text)

\* the comparator over the keys of a map, its negation kept
KeysVariant(c) ==
    [not |-> c.not,
     op |-> CASE c.op = "Eq" -> "KeysEq" [] c.op = "In" -> "KeysIn"
              [] c.op = "Exists" -> "KeysExists" [] c.op = "Empty" -> "KeysEmpty"
              [] c.op = "Lt" -> "KeysLt" [] c.op = "Le" -> "KeysLe"
              [] c.op = "Gt" -> "KeysGt" [] c.op = "Ge" -> "KeysGe"]

\* C21: KEYS, white space and any comparator of the grammar parse to the keys
\* variant of that comparator with its negation kept, the remainder starting
\* after the comparator; KEYS without white space or without a comparator
\* after it is an Error.
C21_KeysKeyword ==
    KeysCalled =>
        IF space1(input, 5).kind = "Ok"
           /\ ComparatorsAt(input, space1(input, 5).pos) # {}
        THEN /\ result.kind = "Ok"
             /\ result.out = KeysVariant(ComparatorAt(input, space1(input, 5).pos).cmp)
             /\ result.pos = space1(input, 5).pos
                             + Len(ComparatorAt(input, space1(input, 5).pos).text)
        ELSE result.kind = "Error"

RECURSIVE NaNFree(_)
\* no float of v, at any depth, is a NaN
NaNFree(v) ==
    /\ ~(v.tag = "Float" /\ v.nan)
    /\ \A i \in 1..Len(v.items) : NaNFree(v.items[i])

\* C30: a value without a NaN float, of any variant, is equal to itself.
C30_EqReflexive ==
    (op = "eq_self" /\ NaNFree(self)) => result.val

\* C29: when clause returns Ok, its remainder is a proper suffix of the input
\* that starts after all the clause covers: after the comparator, the white
\* space and the optional message for a unary comparator, after the right-hand
\* side and the optional message for a binary one; never the input unchanged.
C29_ClauseConsumes ==
    (ClauseCalled /\ result.kind = "Ok") =>
        /\ result.pos > 1
        /\ result.pos = opt_message(input, MessagePlace(input)).pos

\* C28: the loop of clauses ends on every text: a turn that does not return
\* leaves the remaining position strictly further in the text, and never
\* beyond its end, an element with a unary comparator included.
C28_ClausesTerminates ==
    [][(op = "clauses_loop" /\ op' = "clauses_loop") =>
          /\ result'.pos > result.pos
          /\ result'.pos <= Len(input) + 1]_vars

\* the loop returned after some turns, on a clause with a unary comparator
\* that consumed nothing
C28_Witness ==
    /\ op = "clauses_returned"
    /\ result.kind = "Error"
    /\ result.pos > 1
    /\ clause(input, result.pos).kind = "Ok"
    /\ clause(input, result.pos).pos = result.pos
    /\ no_rhs_expected(clause(input, result.pos).out.comparator)

\* ---------------------------------------------------- validate (validate.rs)

\* what get_files returned: the paths found, or an error
Found(paths) == [ok |-> TRUE, paths |-> paths]
NotFound == [ok |-> FALSE, paths |-> <<>>]

\* a line printed, an evaluation started, or a report written
Event(event, file, data) == [event |-> event, file |-> file, data |-> data]

\* Result<()> with what the run did before it returned
Returned(ret, file, data, log) == [ret |-> ret, file |-> file, data |-> data, log |-> log]

RECURSIVE evaluate_against_data_files_loop_going_on(_, _, _, _, _)
\* the loop, were an error of the evaluation printed and the loop continued
evaluate_against_data_files_loop_going_on(data, rules_file, file, j, log) ==
    IF j > Len(data) THEN Returned("Ok", 0, 0, log)
    ELSE IF ~data[j].loads
    THEN evaluate_against_data_files_loop_going_on(data, rules_file, file, j + 1,
             Append(log, Event("data_error", file, j)))
    ELSE IF j \in rules_file.fails_on
    THEN evaluate_against_data_files_loop_going_on(data, rules_file, file, j + 1,
             Append(log, Event("evaluate", file, j)))
    ELSE evaluate_against_data_files_loop_going_on(data, rules_file, file, j + 1,
             log \o <<Event("evaluate", file, j), Event("report", file, j)>>)

RECURSIVE evaluate_against_data_files_loop(_, _, _, _, _)
\* the loop of evaluate_against_data_files over the data files
evaluate_against_data_files_loop(data, rules_file, file, j, log) ==
    IF j > Len(data) THEN Returned("Ok", 0, 0, log)
    ELSE IF ~data[j].loads
    THEN evaluate_against_data_files_loop(data, rules_file, file, j + 1,
                                          Append(log, Event("data_error", file, j)))
    ELSE IF j \in rules_file.fails_on
    THEN Returned("Err", file, j, Append(log, Event("evaluate", file, j)))
    ELSE evaluate_against_data_files_loop(data, rules_file, file, j + 1,
             log \o <<Event("evaluate", file, j), Event("report", file, j)>>)

\* fn evaluate_against_data_files
evaluate_against_data_files(data, rules_file, file, log) ==
    evaluate_against_data_files_loop(data, rules_file, file, 1, log)

RECURSIVE execute_loop_returning(_, _, _, _)
\* the loop, were a parse error returned with `?`
execute_loop_returning(rule_files, data, i, log) ==
    IF i > Len(rule_files) THEN Returned("Ok", 0, 0, log)
    ELSE IF rule_files[i].content = "unreadable"
    THEN execute_loop_returning(rule_files, data, i + 1,
                                Append(log, Event("unreadable", i, 0)))
    ELSE IF rule_files[i].content = "unparsable"
    THEN Returned("Err", 0, 0, Append(log, Event("parse_error", i, 0)))
    ELSE Bind(evaluate_against_data_files(data, rule_files[i], i, log), LAMBDA done :
            IF done.ret # "Ok" THEN done
            ELSE execute_loop_returning(rule_files, data, i + 1, done.log))

RECURSIVE execute_loop(_, _, _, _)
\* the loop of execute over the rules files
execute_loop(rule_files, data, i, log) ==
    IF i > Len(rule_files) THEN Returned("Ok", 0, 0, log)
    ELSE IF rule_files[i].content = "unreadable"
    THEN execute_loop(rule_files, data, i + 1, Append(log, Event("unreadable", i, 0)))
    ELSE IF rule_files[i].content = "unparsable"
    THEN execute_loop(rule_files, data, i + 1, Append(log, Event("parse_error", i, 0)))
    ELSE Bind(evaluate_against_data_files(data, rule_files[i], i, log), LAMBDA done :
            IF done.ret # "Ok" THEN done
            ELSE execute_loop(rule_files, data, i + 1, done.log))

\* Validate::execute
execute(found_files, found_data) ==
    IF ~found_files.ok THEN Returned("Err", 0, 0, <<>>)
    ELSE IF ~found_data.ok THEN Returned("Err", 0, 0, <<>>)
    ELSE execute_loop(found_files.paths, found_data.paths, 1, <<>>)

\* most rules files and most data files of a run
MaxFiles == 2

\* a rules file: unreadable, unparsable, or rules whose evaluation returns an
\* error on some of the data files
RuleFiles ==
    {[content |-> c, fails_on |-> {}] : c \in {"unreadable", "unparsable"}}
      \cup {[content |-> "rules", fails_on |-> f] : f \in SUBSET (1..MaxFiles)}

\* a data file: one that loads as JSON or YAML, or one that does not
DataFiles == {[loads |-> l] : l \in BOOLEAN}

FilesFound == {NotFound} \cup {Found(p) : p \in UNION {[1..n -> RuleFiles] : n \in 0..MaxFiles}}
DataFound == {NotFound} \cup {Found(p) : p \in UNION {[1..n -> DataFiles] : n \in 0..MaxFiles}}

\* validate --rules .. --data ..
CallExecute ==
    /\ op = "none"
    /\ \E f \in FilesFound, d \in DataFound :
          /\ files' = f
          /\ data_files' = d
          /\ result' = execute(f, d)
    /\ op' = "execute"
    /\ UNCHANGED <<overflow_checks, self, other, all, query, value, input, rules, scope>>

NextValidate == CallExecute

SpecValidate == Init /\ [][NextValidate]_vars

Executed == op = "execute"

\* the positions of the log where the event is found
Where(log, event, file, data) ==
    {k \in 1..Len(log) : log[k] = Event(event, file, data)}

\* whether the run got as far as rules file i: no evaluation of an earlier
\* rules file returned an error
Reaches(i) ==
    /\ files.ok /\ data_files.ok
    /\ i \in 1..Len(files.paths)
    /\ \A h \in 1..(i - 1) :
          files.paths[h].content = "rules" =>
              \A j \in 1..Len(data_files.paths) :
                  data_files.paths[j].loads => j \notin files.paths[h].fails_on

\* the data files that rules file i is evaluated against when nothing stops
\* the run: those that load, up to the first that its evaluation fails on
Evaluates(i, j) ==
    /\ j \in 1..Len(data_files.paths)
    /\ data_files.paths[j].loads
    /\ \A h \in 1..(j - 1) :
          data_files.paths[h].loads => h \notin files.paths[i].fails_on

\* the events of the log that belong to rules file i
EventsOf(log, i) == {k \in 1..Len(log) : log[k].file = i}

\* C26: a rules file that cannot be read or parsed is reported once and
\* skipped: nothing is evaluated against it, every rules file after it that
\* the run reaches is evaluated against the data files in order, and execute
\* returns an error only for an evaluation that returned one.
C26_ParseErrorSkips ==
    (Executed /\ files.ok /\ data_files.ok) =>
        /\ result.ret = "Err" => result.file # 0
        /\ \A i \in 1..Len(files.paths) :
              (Reaches(i) /\ files.paths[i].content # "rules") =>
                  /\ Cardinality(EventsOf(result.log, i)) = 1
                  /\ \E k \in EventsOf(result.log, i) :
                        /\ result.log[k] =
                              Event(IF files.paths[i].content = "unreadable"
                                    THEN "unreadable" ELSE "parse_error", i, 0)
                        /\ \A l \in 1..Len(files.paths) :
                              (l > i /\ Reaches(l) /\ files.paths[l].content = "rules") =>
                                  \A j \in 1..Len(data_files.paths) :
                                      Evaluates(l, j) =>
                                          /\ Cardinality(Where(result.log, "evaluate", l, j)) = 1
                                          /\ \A e \in Where(result.log, "evaluate", l, j) :
                                                /\ e > k
                                                /\ \A h \in 1..(j - 1), d \in EventsOf(result.log, l) :
                                                      result.log[d].data = h => d < e

\* a run with a rules file that does not parse, a later one that is evaluated
\* against two data files, and no error returned
C26_Witness ==
    /\ Executed /\ files.ok /\ data_files.ok
    /\ Len(files.paths) = 2
    /\ files.paths[1].content = "unparsable"
    /\ files.paths[2].content = "rules"
    /\ Cardinality(Where(result.log, "report", 2, 1)) = 1
    /\ Cardinality(Where(result.log, "report", 2, 2)) = 1
    /\ result.ret = "Ok"

\* C27: an evaluation that returns an error stops the run at once: no report
\* for that document, nothing more for that rules file or any later one, and
\* execute returns that error; a data file that does not load is reported and
\* the run goes on with the next data file.
C27_EvaluationErrorStops ==
    (Executed /\ files.ok /\ data_files.ok) =>
        \A i \in 1..Len(files.paths), j \in 1..Len(data_files.paths) :
            (Reaches(i) /\ files.paths[i].content = "rules") =>
                /\ (Evaluates(i, j) /\ j \in files.paths[i].fails_on) =>
                      /\ result.ret = "Err" /\ result.file = i /\ result.data = j
                      /\ Len(result.log) >= 1
                      /\ result.log[Len(result.log)] = Event("evaluate", i, j)
                      /\ Where(result.log, "report", i, j) = {}
                      /\ \A k \in 1..Len(result.log) :
                            /\ result.log[k].file <= i
                            /\ result.log[k].file = i => result.log[k].data <= j
                /\ (~data_files.paths[j].loads
                    /\ \A h \in 1..(j - 1) :
                          data_files.paths[h].loads => h \notin files.paths[i].fails_on) =>
                      /\ Cardinality(Where(result.log, "data_error", i, j)) = 1
                      /\ Where(result.log, "evaluate", i, j) = {}
                      /\ \A n \in (j + 1)..Len(data_files.paths) :
                            Evaluates(i, n) =>
                                \E e \in Where(result.log, "evaluate", i, n) :
                                    \A d \in Where(result.log, "data_error", i, j) : d < e

\* a run stopped by the evaluation of the first rules file on the second data
\* file, the first data file not loading and a second rules file waiting
C27_Witness ==
    /\ Executed /\ files.ok /\ data_files.ok
    /\ Len(files.paths) = 2 /\ Len(data_files.paths) = 2
    /\ files.paths[1].content = "rules" /\ files.paths[2].content = "rules"
    /\ ~data_files.paths[1].loads /\ data_files.paths[2].loads
    /\ 2 \in files.paths[1].fails_on
    /\ result.ret = "Err"
    /\ result.log = <<Event("data_error", 1, 1), Event("evaluate", 1, 2)>>

\* ------------------------------------------------------------ the evaluator

Status == {"PASS", "FAIL", "SKIP"}

\* StatusContext: a frame of the evaluation tree
StatusContext(eval_type, context, from, to, status, children) ==
    [eval_type |-> eval_type, context |-> context, from |-> from, to |-> to,
     status |-> status, children |-> children]

\* a negation that takes SKIP for a failure
negation_failing_skip(status) == IF status = "FAIL" THEN "PASS" ELSE "FAIL"

\* negation: PASS and FAIL change places, SKIP stays
negation_status(status) ==
    CASE status = "PASS" -> "FAIL"
      [] status = "FAIL" -> "PASS"
      [] OTHER -> status

\* the status of a reference to a named rule: the rule's status in the scope,
\* negated when the reference is
evaluate_named_rule(reference, statuses) ==
    Bind(IF reference.negation THEN negation_status(statuses[reference.name])
         ELSE statuses[reference.name], LAMBDA status :
        StatusContext("Clause", reference.name, None, None, status, <<>>))

RECURSIVE evaluate_each(_, _, _, _)
\* the members evaluated one after the other, every one of them
evaluate_each(members, statuses, i, frames) ==
    IF i > Len(members) THEN frames
    ELSE evaluate_each(members, statuses, i + 1,
                       Append(frames, evaluate_named_rule(members[i], statuses)))

RECURSIVE evaluate_until_pass(_, _, _, _)
\* the members evaluated one after the other up to the first that passes
evaluate_until_pass(members, statuses, i, frames) ==
    IF i > Len(members) THEN frames
    ELSE IF evaluate_named_rule(members[i], statuses).status = "PASS"
    THEN Append(frames, evaluate_named_rule(members[i], statuses))
    ELSE evaluate_until_pass(members, statuses, i + 1,
                             Append(frames, evaluate_named_rule(members[i], statuses)))

RECURSIVE or_status(_, _, _)
\* an OR: PASS once a member passed, else SKIP once one was skipped, else FAIL
or_status(frames, i, status) ==
    IF i > Len(frames) THEN status
    ELSE or_status(frames, i + 1,
                   IF status = "PASS" \/ frames[i].status = "PASS" THEN "PASS"
                   ELSE IF status = "SKIP" \/ frames[i].status = "SKIP" THEN "SKIP"
                   ELSE "FAIL")

\* a disjunction that stops at the first member that passes
evaluate_disjunction_short(members, statuses) ==
    Bind(evaluate_until_pass(members, statuses, 1, <<>>), LAMBDA frames :
        StatusContext("Disjunction", <<>>, None, None, or_status(frames, 1, "FAIL"), frames))

\* a disjunction: every member is evaluated, left to right
evaluate_disjunction(members, statuses) ==
    Bind(evaluate_each(members, statuses, 1, <<>>), LAMBDA frames :
        StatusContext("Disjunction", <<>>, None, None, or_status(frames, 1, "FAIL"), frames))

RECURSIVE and_status_first(_, _, _)
\* an AND that takes the status of its first member that did not pass
and_status_first(frames, i, status) ==
    IF i > Len(frames) THEN status
    ELSE IF frames[i].status # "PASS" THEN frames[i].status
    ELSE and_status_first(frames, i + 1, status)

RECURSIVE and_status(_, _, _)
\* an AND: FAIL once a member failed, else SKIP once one was skipped, else PASS
and_status(frames, i, status) ==
    IF i > Len(frames) THEN status
    ELSE and_status(frames, i + 1,
                    IF status = "FAIL" \/ frames[i].status = "FAIL" THEN "FAIL"
                    ELSE IF status = "SKIP" \/ frames[i].status = "SKIP" THEN "SKIP"
                    ELSE "PASS")

RECURSIVE evaluate_groups(_, _, _, _)
\* the ConjunctionClauses one after the other: a single clause, or an OR
evaluate_groups(conjunctions, statuses, i, frames) ==
    IF i > Len(conjunctions) THEN frames
    ELSE evaluate_groups(conjunctions, statuses, i + 1,
             Append(frames,
                    IF conjunctions[i].join = "And"
                    THEN evaluate_named_rule(conjunctions[i].clauses[1], statuses)
                    ELSE evaluate_disjunction(conjunctions[i].clauses, statuses)))

\* Conjunctions evaluated in a scope that gives every named rule its status
evaluate_conjunctions(conjunctions, statuses) ==
    Bind(evaluate_groups(conjunctions, statuses, 1, <<>>), LAMBDA frames :
        StatusContext("Conjunction", <<>>, None, None, and_status(frames, 1, "PASS"), frames))

secure == <<"s", "e", "c", "u", "r", "e">>
encrypted == <<"e", "n", "c", "r", "y", "p", "t", "e", "d">>
RuleNames == {secure, encrypted}

\* a reference to a named rule, plain or negated
References == {GuardClause_NamedRule(n, 1, neg, None) : n \in RuleNames, neg \in BOOLEAN}

\* most clauses of an OR, and most ConjunctionClauses of a rule body
MaxMembers == 3

Groups ==
    {ConjunctionClause_And(c) : c \in References}
      \cup {ConjunctionClause_Or(m) : m \in UNION {[1..n -> References] : n \in 2..MaxMembers}}

\* rule bodies: ANDs of references, one OR, an OR among references, and what
\* clauses parses from the text of the disjunction scenario
Bodies ==
    UNION {[1..n -> {ConjunctionClause_And(c) : c \in References}] : n \in 0..MaxMembers}
      \cup {<<g>> : g \in Groups}
      \cup {<<g, h>> : g \in Groups, h \in {ConjunctionClause_And(c) : c \in References}}
      \cup {clauses(<<"s", "e", "c", "u", "r", "e", " ", "o", "r", " ", "!", "e", "n", "c", "r", "y", "p", "t", "e", "d", "\n">>, 1).out}

\* the body of a rule evaluated in a scope
CallEvaluate ==
    /\ op = "none"
    /\ \E body \in Bodies, statuses \in [RuleNames -> Status] :
          /\ rules' = body
          /\ scope' = statuses
          /\ result' = evaluate_conjunctions(body, statuses)
    /\ op' = "evaluate"
    /\ UNCHANGED <<overflow_checks, self, other, all, query, value, input, files,
                   data_files>>

\* regex::Regex::is_match for a pattern without metacharacters: the pattern
\* occurs in the string
is_match(reg, s) ==
    \E p \in 1..(Len(s) - Len(reg) + 1) : SubSeq(s, p, p + Len(reg) - 1) = reg

\* an equality that looks at the variants only
compare_variants(first, second) == first.tag = second.tag

\* fn compare_eq
compare_eq(first, second) ==
    CASE first.tag = "String" /\ second.tag = "Regex" -> is_match(second.s, first.s)
      [] first.tag = "Regex" /\ second.tag = "String" -> is_match(first.s, second.s)
      [] OTHER -> eq(first, second)

Resources == <<"R", "e", "s", "o", "u", "r", "c", "e", "s">>
Type == <<"T", "y", "p", "e">>
Properties == <<"P", "r", "o", "p", "e", "r", "t", "i", "e", "s">>
VPC == <<"V", "P", "C">>
Method == <<"M", "e", "t", "h", "o", "d">>
Bucket == <<"B", "u", "c", "k", "e", "t">>
AuthorizationType == <<"A", "u", "t", "h", "o", "r", "i", "z", "a", "t", "i", "o", "n", "T", "y", "p", "e">>
NONE == <<"N", "O", "N", "E">>

\* {"Resources": {"VPC": {"Type": type, "Properties": {key: v}}}}
Template(type, key, v) ==
    VMap(<<Resources>>,
         <<VMap(<<VPC>>,
                <<VMap(<<Type, Properties>>,
                       <<VString(type), VMap(<<key>>, <<v>>)>>)>>)>>)

\* Type { Properties.key == "lit" }
TypeBlock(type_name, key, lit) ==
    [type_name |-> type_name,
     block |-> GuardClause_Clause(PropertyAccess(None, <<Properties, key>>), Cmp("Eq"),
                                  LetValue(VString(lit)), None, 1, FALSE)]

\* the clause of the filter of a type block: Type == "type_name"
type_clause(type_name) ==
    GuardClause_Clause(PropertyAccess(None, <<Type>>), Cmp("Eq"),
                       LetValue(VString(type_name)), None, 1, FALSE)

\* the query of a dotted access without a variable: one Key a name
access_query(dotted) == [i \in 1..Len(dotted) |-> Key(dotted[i])]

\* where a literal of the rules sits: a path made from its location
literal_path == <<"l", "a", "m", "b", "d", "a">>

\* an access clause with == and a literal, evaluated against each: SKIP when
\* the left-hand side is not there, PASS when every value selected equals the
\* literal, FAIL otherwise and for the other errors; the frame of a FAIL
\* carries the two operands
evaluate_access_clause(guard_clause, each, checks) ==
    Bind(select(each, FALSE, access_query(guard_clause.access.property_dotted_notation),
                checks), LAMBDA lhs :
    Bind(try_from(guard_clause.compare_with.value, literal_path), LAMBDA rhs :
        IF lhs.kind = "RetrievalError" \/ (lhs.kind = "Ok" /\ lhs.vals = <<>>)
        THEN StatusContext("Clause", guard_clause, None, None, "SKIP", <<>>)
        ELSE IF lhs.kind # "Ok"
        THEN StatusContext("Clause", guard_clause, None, None, "FAIL", <<>>)
        ELSE IF \A i \in 1..Len(lhs.vals) : compare_eq(lhs.vals[i], rhs)
        THEN StatusContext("Clause", guard_clause, None, None, "PASS", <<>>)
        ELSE StatusContext("Clause", guard_clause,
                 Some(lhs.vals[CHOOSE i \in 1..Len(lhs.vals) :
                                   /\ ~compare_eq(lhs.vals[i], rhs)
                                   /\ \A h \in 1..(i - 1) : compare_eq(lhs.vals[h], rhs)]),
                 Some(rhs), "FAIL", <<>>)))

\* the resources of a template, in insertion order
resources_of(root_value) ==
    IF root_value.tag = "Map" /\ KeyPos(root_value, Resources) # 0
       /\ root_value.items[KeyPos(root_value, Resources)].tag = "Map"
    THEN root_value.items[KeyPos(root_value, Resources)].items
    ELSE <<>>

\* select on a map under a Filter part: the Filter frame, its context
\* "Path=..,Type=MapElement", the status the conjunctions gave, and below it
\* what the conjunctions recorded
filter_frame(each, type_name, checks) ==
    Bind(evaluate_access_clause(type_clause(type_name), each, checks), LAMBDA frame :
        StatusContext("Filter", [path |-> each.path, type |-> "MapElement"], None, None,
                      frame.status, <<frame>>))

\* Resources.*[ Type == "type_name" ]; the conjunctions of the filter by the
\* status they give the maps met
type_query(root_value, type_name, checks) ==
    <<Key(Resources), AllValues,
      Filter(Conj(IF resources_of(root_value) = <<>> THEN "SKIP"
                  ELSE filter_frame(resources_of(root_value)[1], type_name, checks).status,
                  "FAIL", "FAIL", "FAIL"))>>

\* the status recorded on the frame of a block: PASS over clauses that all
\* passed, and SKIP otherwise, as the frames over the failed clause of
\* test_run_check have
block_status(frames) ==
    IF and_status(frames, 1, "PASS") = "PASS" THEN "PASS" ELSE "SKIP"

\* the frame of the block evaluated against the element selected at index
element_frame(type_block, each, index, checks) ==
    Bind(evaluate_access_clause(type_block.block, each, checks), LAMBDA frame :
        StatusContext("Type",
                      [type_name |-> type_block.type_name, index |-> index,
                       path |-> each.path],
                      None, None, block_status(<<frame>>), <<frame>>))

\* run_checks(data, rule) for a rules file that is one type block: the tree of
\* the evaluation, under the frame of the rule "default"
run_checks(root_value, type_block, checks) ==
    Bind(select(root_value, FALSE, type_query(root_value, type_block.type_name, checks),
                checks), LAMBDA selected :
    Bind([r \in 1..Len(resources_of(root_value)) |->
             filter_frame(resources_of(root_value)[r], type_block.type_name, checks)],
         LAMBDA filters :
    Bind(IF selected.kind = "Ok"
         THEN [i \in 1..Len(selected.vals) |->
                  element_frame(type_block, selected.vals[i], i - 1, checks)]
         ELSE <<>>, LAMBDA elements :
    Bind(IF elements = <<>> THEN "SKIP" ELSE block_status(elements), LAMBDA status :
        StatusContext("Rule", <<"d", "e", "f", "a", "u", "l", "t">>, None, None, status,
            <<StatusContext("Type", type_block.type_name, None, None, status,
                            filters \o elements)>>)))))

\* one resource of one of two types, with one property
Templates ==
    {Template(t, k, v) : t \in {Method, Bucket}, k \in {AuthorizationType, sa},
                         v \in {VString(sa), VString(sb), VInt(1), VList(<<VString(sa)>>)}}

TypeBlocks == {TypeBlock(t, AuthorizationType, l) : t \in {Method, Bucket}, l \in {NONE, sc}}

\* cfn_guard::run_checks(data, rule)
CallRunChecks ==
    /\ op = "none"
    /\ \E d \in Templates, b \in TypeBlocks :
          /\ self' = try_from(d, root)
          /\ rules' = b
          /\ result' = run_checks(try_from(d, root), b, overflow_checks)
    /\ op' = "run_checks"
    /\ UNCHANGED <<overflow_checks, other, all, query, value, input, files, data_files,
                   scope>>

NextEvaluate ==
    \/ CallEvaluate
    \/ CallRunChecks

SpecEvaluate == Init /\ [][NextEvaluate]_vars

RunChecked == op = "run_checks"

\* the one resource of the template evaluated, its Properties, and the first
\* of them
TheResource == self.items[1].items[1]
TheProperties == TheResource.items[2]
TheProperty == TheProperties.items[1]

\* the resource has the type of the block and the property the clause names
BlockApplies ==
    /\ TheResource.items[1].s = rules.type_name
    /\ TheProperties.mkeys[1] = rules.block.access.property_dotted_notation[2]

Evaluated == op = "evaluate"

\* the statuses of the frames below the frame of the rule body
MemberStatuses == {result.children[i].status : i \in 1..Len(result.children)}

StatusOf(reference) ==
    IF ~reference.negation THEN scope[reference.name]
    ELSE IF scope[reference.name] = "PASS" THEN "FAIL"
    ELSE IF scope[reference.name] = "FAIL" THEN "PASS"
    ELSE "SKIP"

\* the groups of the body that are ORs
Disjunctions == {i \in 1..Len(rules) : rules[i].join = "Or"}

\* C24: the status of an OR is PASS iff at least one member is PASS, FAIL iff
\* every member is FAIL, and SKIP otherwise; every member is evaluated, left
\* to right, also after one that passed; so `secure or !encrypted` is PASS
\* when both rules are FAIL.
C24_OrLaw ==
    Evaluated =>
        /\ \A g \in Disjunctions :
              LET members == rules[g].clauses
                  frame == result.children[g]
              IN  /\ frame.eval_type = "Disjunction"
                  /\ Len(frame.children) = Len(members)
                  /\ \A i \in 1..Len(members) :
                        /\ frame.children[i].context = members[i].name
                        /\ frame.children[i].status = StatusOf(members[i])
                  /\ (frame.status = "PASS") =
                        (\E i \in 1..Len(members) : StatusOf(members[i]) = "PASS")
                  /\ (frame.status = "FAIL") =
                        (\A i \in 1..Len(members) : StatusOf(members[i]) = "FAIL")
                  /\ (frame.status = "SKIP") =
                        /\ \A i \in 1..Len(members) : StatusOf(members[i]) # "PASS"
                        /\ \E i \in 1..Len(members) : StatusOf(members[i]) = "SKIP"
        /\ (/\ Len(rules) = 1 /\ rules[1].join = "Or" /\ Len(rules[1].clauses) = 2
            /\ rules[1].clauses[1].name = secure /\ ~rules[1].clauses[1].negation
            /\ rules[1].clauses[2].name = encrypted /\ rules[1].clauses[2].negation
            /\ scope[secure] = "FAIL" /\ scope[encrypted] = "FAIL")
              => result.status = "PASS"

\* an OR whose first member passed and whose other members have their frames
C24_Witness ==
    /\ Evaluated
    /\ Len(rules) = 1 /\ rules[1].join = "Or" /\ Len(rules[1].clauses) = 3
    /\ result.children[1].children[1].status = "PASS"
    /\ Len(result.children[1].children) = 3
    /\ result.children[1].children[2].status = "FAIL"
    /\ result.children[1].children[3].status = "SKIP"
    /\ result.children[1].status = "PASS"

\* the groups of the body that are one reference
Singles == {i \in 1..Len(rules) : rules[i].join = "And"}

\* C25: negating a reference to a named rule maps PASS to FAIL, FAIL to PASS
\* and SKIP to SKIP, and negating twice gives back the status.
C25_NegationLaw ==
    Evaluated =>
        /\ \A g \in Singles :
              LET reference == rules[g].clauses[1]
                  status == result.children[g].status
              IN  IF reference.negation
                  THEN /\ scope[reference.name] = "PASS" => status = "FAIL"
                       /\ scope[reference.name] = "FAIL" => status = "PASS"
                       /\ scope[reference.name] = "SKIP" => status = "SKIP"
                  ELSE status = scope[reference.name]
        /\ \A n \in RuleNames :
              negation_status(negation_status(scope[n])) = scope[n]

\* a negated reference to a rule that was skipped, next to one to a rule that
\* failed
C25_Witness ==
    /\ Evaluated
    /\ Len(rules) = 2
    /\ rules[1].join = "And" /\ rules[1].clauses[1].negation
    /\ rules[2].join = "And" /\ rules[2].clauses[1].negation
    /\ scope[rules[1].clauses[1].name] = "SKIP"
    /\ scope[rules[2].clauses[1].name] = "FAIL"
    /\ result.children[1].status = "SKIP"
    /\ result.children[2].status = "PASS"

====
